---- MODULE Spec2Model ----
(***************************************************************************)
(* Model of pygmsh's two Geometry classes (pygmsh/geometry.py and          *)
(* pygmsh/opencascade/geometry.py): the per-session counters, the          *)
(* statement log _GMSH_CODE and every public builder.                      *)
(*                                                                         *)
(* A Python value is a record [t, txt, sym, dim, list, code]:              *)
(*   t    = "str" | "none" | "ent"   (str, None, object with an .id)       *)
(*   txt  = the text the value contributes when it is formatted            *)
(*   sym  = the generated symbol that text denotes ("" when none)          *)
(*   dim  = the class of an entity object ("-" for str and None)           *)
(*   list = the is_list flag of an entity object                           *)
(*   code = the .code of an entity object (the statement defining it)      *)
(* A statement of the log is a record [kind, defs, refs, tools, attr]: the *)
(* symbols it defines, the references it embeds (in order; the tool list   *)
(* of a boolean statement apart in tools) and its other textual parts.     *)
(***************************************************************************)
EXTENDS Integers, Sequences, FiniteSets, TLC

VARIABLES geom, last, calls, others

vars == <<geom, last, calls, others>>

\* ------------------------------------------------------------------ bounds
\* number of public calls made on the session
MaxCalls == 2
\* largest number of coordinate points given to add_polygon / add_polygon_loop
MaxPoints == 2
\* number of Geometry objects alive in the process
MaxSessions == 2

\* ------------------------------------------------------------ Python values
Stmt(kind, defs, refs, attr) ==
    [kind |-> kind, defs |-> defs, refs |-> refs, tools |-> <<>>, attr |-> attr]

NoCode == Stmt("-", <<>>, <<>>, <<>>)

Str(txt, sym) ==
    [t |-> "str", txt |-> txt, sym |-> sym, dim |-> "-", list |-> FALSE,
     code |-> NoCode]

NoneV ==
    [t |-> "none", txt |-> "None", sym |-> "None", dim |-> "-", list |-> FALSE,
     code |-> NoCode]

Ent(cls, id, sym) ==
    [t |-> "ent", txt |-> id, sym |-> sym, dim |-> cls, list |-> FALSE,
     code |-> NoCode]

\* Dummy(id): an object whose only attribute is .id
Dummy(id, sym) == Ent("Dummy", id, sym)

\* isinstance(v, str)
IsStr(v) == v.t = "str"

\* v.id exists
HasId(v) == v.t = "ent"

\* '%s' % v : str and None format as their text, an object as its repr
Fmt(v) == IF v.t = "ent" THEN [txt |-> "<object>", sym |-> ""]
                         ELSE [txt |-> v.txt, sym |-> v.sym]

\* v.id embedded in a statement
IdRef(v) == [txt |-> v.txt, sym |-> v.sym]

\* [f(s) for s in xs]
RECURSIVE MapSeq(_, _)
MapSeq(F(_), xs) == IF xs = <<>> THEN <<>>
                    ELSE <<F(Head(xs))>> \o MapSeq(F, Tail(xs))

AllOf(P(_), xs) == \A i \in 1..Len(xs) : P(xs[i])

\* ---------------------------------------------------------------- results
Ok(g, ret) == [g |-> g, ret |-> ret, err |-> ""]

Raise(g, e) == [g |-> g, ret |-> <<>>, err |-> e]

\* Sequencing of two steps of a method body: an exception ends the call.
Then(r, F(_)) == IF r.err # "" THEN r ELSE F(r)

\* a log that takes the new statement at its head
EmitAtHead(g, stmt) == [g EXCEPT !.GMSH_CODE = <<stmt>> \o @]

\* self._GMSH_CODE.append(stmt)
Emit(g, stmt) == [g EXCEPT !.GMSH_CODE = Append(@, stmt)]

\* '%s%d' % (prefix, n)
Name(prefix, n) == prefix \o ToString(n)

\* history of the session: every name formatted from a counter, in issue
\* order, with the counter and the number it was formatted from
Issue(g, ctr, name) ==
    [g EXCEPT !.issued = Append(@, [ctr |-> ctr, n |-> g[ctr], name |-> name])]

\* an allocator that formats the name and leaves the counter as it is
AllocWithoutIncrement(g, ctr, prefix) ==
    [g |-> Issue(g, ctr, Name(prefix, g[ctr] + 1)), id |-> Name(prefix, g[ctr] + 1)]

\* an allocator whose counter is shared by every session of the process: the
\* number follows the one the first session has reached
AllocProcessWide(g, ctr, prefix) ==
    LET g1 == [g EXCEPT ![ctr] = geom[ctr] + 1]
    IN  [g |-> Issue(g1, ctr, Name(prefix, g1[ctr])), id |-> Name(prefix, g1[ctr])]

\* self._X_ID += 1 ; name = '<prefix>%d' % self._X_ID
Alloc(g, ctr, prefix) ==
    LET g1 == [g EXCEPT ![ctr] = @ + 1]
    IN  [g |-> Issue(g1, ctr, Name(prefix, g1[ctr])), id |-> Name(prefix, g1[ctr])]

\* a generated symbol embedded in a statement
Sym(id) == [txt |-> id, sym |-> id]

\* ------------------------------------------------------------- construction
header == Stmt("comment", <<>>, <<>>, <<"This code was created by PyGmsh.">>)

Counters0 ==
    [SURFACE_ID |-> 0, SURFACELOOP_ID |-> 0, VOLUME_ID |-> 0,
     ELLIPSE_ID |-> 0, EXTRUDE_ID |-> 0, ARRAY_ID |-> 0, FIELD_ID |-> 0,
     PHYSICALGROUP_ID |-> 0, BOOLEAN_ID |-> 0,
     POINT_ID |-> 0, LINE_ID |-> 0, LINELOOP_ID |-> 0, SURFACEBASE_ID |-> 0,
     VOLUMEBASE_ID |-> 0]

CounterNames == DOMAIN Counters0

\* pygmsh.Geometry()
NewBuiltin ==
    [cls |-> "builtin", GMSH_CODE |-> <<header>>, issued |-> <<>>] @@ Counters0

\* a constructor that takes the upper characteristic length only
NewOccMaxOnly(hasMin, hasMax) ==
    [cls |-> "occ",
     GMSH_CODE |-> <<header, Stmt("SetFactory", <<>>, <<>>, <<"OpenCASCADE">>)>>
                   \o (IF hasMax
                       THEN <<Stmt("option", <<>>, <<>>, <<"Mesh.CharacteristicLengthMax">>)>>
                       ELSE <<>>),
     issued |-> <<>>] @@ Counters0

\* pygmsh.opencascade.Geometry(characteristic_length_min, characteristic_length_max)
NewOcc(hasMin, hasMax) ==
    [cls |-> "occ",
     GMSH_CODE |-> <<header, Stmt("SetFactory", <<>>, <<>>, <<"OpenCASCADE">>)>>
                   \o (IF hasMin
                       THEN <<Stmt("option", <<>>, <<>>, <<"Mesh.CharacteristicLengthMin">>)>>
                       ELSE <<>>)
                   \o (IF hasMax
                       THEN <<Stmt("option", <<>>, <<>>, <<"Mesh.CharacteristicLengthMax">>)>>
                       ELSE <<>>),
     issued |-> <<>>] @@ Counters0

\* a constructor that takes up the counters where the first of the existing
\* sessions has left them
NewSessionContinuing(existing, cls, hasMin, hasMax) ==
    LET fresh == IF cls = "builtin" THEN NewBuiltin ELSE NewOcc(hasMin, hasMax)
    IN  [c \in DOMAIN fresh |->
            IF c \in CounterNames THEN existing[1][c] ELSE fresh[c]]

\* Geometry() / opencascade.Geometry(...) in a process that already holds the
\* sessions existing: __init__ assigns every counter and the log on self
NewSession(existing, cls, hasMin, hasMax) ==
    IF cls = "builtin" THEN NewBuiltin ELSE NewOcc(hasMin, hasMax)

\* the text of a script: statements and the separators between them
Piece(stmt) == [nl |-> FALSE, stmt |-> stmt]

Newline == [nl |-> TRUE, stmt |-> NoCode]

\* sep.join(xs)
RECURSIVE Join(_, _)
Join(sep, xs) ==
    IF xs = <<>> THEN <<>>
    ELSE IF Len(xs) = 1 THEN <<Piece(xs[1])>>
    ELSE <<Piece(xs[1]), sep>> \o Join(sep, Tail(xs))

\* Geometry.get_code of both classes: '\n'.join(self._GMSH_CODE)
get_code(g) == Join(Newline, g.GMSH_CODE)

\* ------------------------------------------------- primitive builders
\* Geometry.add
add(g, entity) ==
    IF ~HasId(entity) THEN Raise(g, "AttributeError")
    ELSE Ok(Emit(g, entity.code), <<entity>>)

add_ruled_surface(g, line_loop) ==
    LET a == Alloc(g, "SURFACE_ID", "surf")
        g1 == Emit(a.g, Stmt("new", <<a.id>>, <<>>, <<"news">>))
    IN  IF ~HasId(line_loop) THEN Raise(g1, "AttributeError")
        ELSE Ok(Emit(g1, Stmt("Ruled Surface", <<>>,
                              <<Sym(a.id), IdRef(line_loop)>>, <<>>)),
                <<Dummy(a.id, a.id)>>)

add_compound_surface(g, surfaces) ==
    LET a == Alloc(g, "SURFACE_ID", "surf")
        g1 == Emit(a.g, Stmt("new", <<a.id>>, <<>>, <<"news">>))
    IN  IF ~AllOf(HasId, surfaces) THEN Raise(g1, "AttributeError")
        ELSE Ok(Emit(g1, Stmt("Compound Surface", <<>>,
                              <<Sym(a.id)>> \o MapSeq(IdRef, surfaces), <<>>)),
                <<Dummy(a.id, a.id)>>)

add_surface_loop(g, surfaces) ==
    LET a == Alloc(g, "SURFACELOOP_ID", "surfloop")
        g1 == Emit(a.g, Stmt("new", <<a.id>>, <<>>, <<"newsl">>))
    IN  IF ~AllOf(HasId, surfaces) THEN Raise(g1, "AttributeError")
        ELSE Ok(Emit(g1, Stmt("Surface Loop", <<>>,
                              <<Sym(a.id)>> \o MapSeq(IdRef, surfaces), <<>>)),
                <<Str(a.id, a.id)>>)

add_volume(g, surface_loop) ==
    LET a == Alloc(g, "VOLUME_ID", "vol")
        g1 == Emit(a.g, Stmt("new", <<a.id>>, <<>>, <<"newv">>))
    IN  Ok(Emit(g1, Stmt("Volume", <<>>, <<Sym(a.id), Fmt(surface_loop)>>, <<>>)),
           <<Str(a.id, a.id)>>)

add_compound_volume(g, volumes) ==
    LET a == Alloc(g, "VOLUME_ID", "cv")
        g1 == Emit(a.g, Stmt("new", <<a.id>>, <<>>, <<"newv">>))
    IN  IF ~AllOf(HasId, volumes) THEN Raise(g1, "AttributeError")
        ELSE Ok(Emit(g1, Stmt("Compound Volume", <<>>,
                              <<Sym(a.id)>> \o MapSeq(IdRef, volumes), <<>>)),
                <<Str(a.id, a.id)>>)

\* Geometry._new_physical_group: the number is formatted only without a label
new_physical_group(g, label) ==
    LET n == g.PHYSICALGROUP_ID + 1
        g1 == [g EXCEPT !.PHYSICALGROUP_ID = n]
    IN  IF label.t = "none"
        THEN [g |-> Issue(g1, "PHYSICALGROUP_ID", Name("", n)), label |-> Name("", n)]
        ELSE [g |-> g1, label |-> "\"" \o Fmt(label).txt \o "\""]

\* add_physical_point / _line / _surface / _volume share one body
add_physical(g, what, entity, label) ==
    LET l == new_physical_group(g, label)
    IN  Ok(Emit(l.g, Stmt(what, <<>>, <<Fmt(entity)>>, <<l.label>>)), <<NoneV>>)

add_physical_point(g, point, label) == add_physical(g, "Physical Point", point, label)

add_physical_line(g, line, label) == add_physical(g, "Physical Line", line, label)

add_physical_surface(g, surface, label) ==
    add_physical(g, "Physical Surface", surface, label)

add_physical_volume(g, volume, label) ==
    add_physical(g, "Physical Volume", volume, label)

\* an extrude that writes its statement before it looks at the axes
extrude_emit_first(g, entity0, translation_axis, rotation_axis, point_on_axis, angle) ==
    LET a == Alloc(g, "EXTRUDE_ID", "ex")
        entity == IF IsStr(entity0) THEN Dummy(entity0.txt, entity0.sym) ELSE entity0
        g1 == Emit(a.g, Stmt("Extrude", <<a.id>>, <<Fmt(entity0)>>, <<>>))
    IN  IF rotation_axis /\ ~point_on_axis THEN Raise(g1, "TypeError")
        ELSE IF ~translation_axis /\ ~rotation_axis THEN Raise(g1, "RuntimeError")
        ELSE IF ~HasId(entity) THEN Raise(g1, "AttributeError")
        ELSE Ok(g1, <<Dummy(a.id \o "[0]", a.id), Dummy(a.id \o "[1]", a.id)>>)

\* Geometry.extrude; an axis is given (TRUE) or None (FALSE)
extrude(g, entity0, translation_axis, rotation_axis, point_on_axis, angle) ==
    LET a == Alloc(g, "EXTRUDE_ID", "ex")
        entity == IF IsStr(entity0) THEN Dummy(entity0.txt, entity0.sym) ELSE entity0
        stmt(mode) == Stmt("Extrude", <<a.id>>, <<IdRef(entity)>>,
                           <<mode>> \o (IF rotation_axis THEN <<Fmt(angle).txt>> ELSE <<>>))
        done(mode) == Ok(Emit(a.g, stmt(mode)),
                         <<Dummy(a.id \o "[0]", a.id), Dummy(a.id \o "[1]", a.id)>>)
    IN  IF translation_axis /\ rotation_axis
        THEN IF ~point_on_axis THEN Raise(a.g, "TypeError")
             ELSE IF ~HasId(entity) THEN Raise(a.g, "AttributeError")
             ELSE done("translation+rotation")
        ELSE IF translation_axis
        THEN IF ~HasId(entity) THEN Raise(a.g, "AttributeError")
             ELSE done("translation")
        ELSE IF rotation_axis
        THEN IF ~point_on_axis THEN Raise(a.g, "TypeError")
             ELSE IF ~HasId(entity) THEN Raise(a.g, "AttributeError")
             ELSE done("rotation")
        ELSE Raise(a.g, "RuntimeError")

\* the scalar options of add_boundary_layer, in the order the code tests them
BoundaryLayerParams == <<"hfar", "hwall_t", "hwall_n", "ratio", "thickness", "AnisoMax">>

RECURSIVE EmitParams(_, _, _, _)
EmitParams(g, name, given, k) ==
    IF k > Len(BoundaryLayerParams) THEN g
    ELSE EmitParams(IF BoundaryLayerParams[k] \in given
                    THEN Emit(g, Stmt("Field option", <<>>, <<Sym(name)>>,
                                      <<BoundaryLayerParams[k]>>))
                    ELSE g,
                    name, given, k + 1)

\* one of the three optional lists of add_boundary_layer
FieldList(r, name, what, xs, Good(_), e) ==
    IF xs = <<>> THEN r
    ELSE IF ~AllOf(Good, xs) THEN Raise(r.g, e)
    ELSE Ok(Emit(r.g, Stmt("Field option", <<>>,
                           <<Sym(name)>> \o MapSeq(IdRef, xs), <<what>>)), <<>>)

add_boundary_layer(g, edges_list, faces_list, nodes_list, given) ==
    LET a == Alloc(g, "FIELD_ID", "field")
        g1 == Emit(a.g, Stmt("new", <<a.id>>, <<>>, <<"newf">>))
        g2 == Emit(g1, Stmt("Field", <<>>, <<Sym(a.id)>>, <<"BoundaryLayer">>))
        r1 == FieldList(Ok(g2, <<>>), a.id, "EdgesList", edges_list, HasId, "AttributeError")
        r2 == Then(r1, LAMBDA r : FieldList(r, a.id, "FacesList", faces_list, IsStr, "TypeError"))
        r3 == Then(r2, LAMBDA r : FieldList(r, a.id, "NodesList", nodes_list, HasId, "AttributeError"))
    IN  Then(r3, LAMBDA r : Ok(EmitParams(r.g, a.id, given, 1), <<Str(a.id, a.id)>>))

add_background_field(g, fields, aggregation_type) ==
    LET a == Alloc(g, "FIELD_ID", "field")
        g1 == Emit(a.g, Stmt("new", <<a.id>>, <<>>, <<"newf">>))
        g2 == Emit(g1, Stmt("Field", <<>>, <<Sym(a.id)>>, <<aggregation_type>>))
    IN  IF ~AllOf(IsStr, fields) THEN Raise(g2, "TypeError")
        ELSE LET g3 == Emit(g2, Stmt("Field option", <<>>,
                                     <<Sym(a.id)>> \o MapSeq(IdRef, fields),
                                     <<"FieldsList">>))
             IN  Ok(Emit(g3, Stmt("Background Field", <<>>, <<Sym(a.id)>>, <<>>)),
                    <<Str(a.id, a.id)>>)

add_array(g, entities) ==
    LET a == Alloc(g, "ARRAY_ID", "array")
    IN  IF ~AllOf(IsStr, entities) THEN Raise(a.g, "TypeError")
        ELSE Ok(Emit(a.g, Stmt("Array", <<a.id>>, MapSeq(IdRef, entities), <<>>)),
                <<Str(a.id \o "[]", a.id)>>)

add_comment(g, string) ==
    Ok(Emit(g, Stmt("comment", <<>>, <<>>, <<string>>)), <<NoneV>>)

RECURSIVE EmitRaw(_, _)
EmitRaw(g, strings) ==
    IF strings = <<>> THEN g
    ELSE EmitRaw(Emit(g, Stmt("raw", <<>>, <<>>, <<Head(strings)>>)), Tail(strings))

\* add_raw_code: a str is modelled as the one-element sequence isStr = TRUE
add_raw_code(g, isStr, strings) ==
    IF isStr THEN Ok(Emit(g, Stmt("raw", <<>>, <<>>, <<strings[1]>>)), <<NoneV>>)
    ELSE Ok(EmitRaw(g, strings), <<NoneV>>)

\* ------------------------------------------------------- entity classes
\* The entity classes (point.py, line.py, ellipse_arc.py, line_loop.py,
\* plane_surface.py, circle.py, dummy.py) are imported by geometry.py; a
\* constructor allocates the id of its class and builds the object's .code.
WithCode(v, stmt) == [v EXCEPT !.code = stmt]

Point(g) ==
    LET a == Alloc(g, "POINT_ID", "p")
    IN  Ok(a.g, <<WithCode(Ent("Point", a.id, a.id), Stmt("Point", <<a.id>>, <<>>, <<>>))>>)

Line(g, p0, p1) ==
    IF ~(HasId(p0) /\ HasId(p1)) THEN Raise(g, "AttributeError")
    ELSE LET a == Alloc(g, "LINE_ID", "l")
         IN  Ok(a.g, <<WithCode(Ent("Line", a.id, a.id),
                                Stmt("Line", <<a.id>>, <<IdRef(p0), IdRef(p1)>>, <<>>))>>)

EllipseArc(g, points) ==
    IF ~AllOf(HasId, points) THEN Raise(g, "AttributeError")
    ELSE LET a == Alloc(g, "LINE_ID", "l")
         IN  Ok(a.g, <<WithCode(Ent("Line", a.id, a.id),
                                Stmt("Ellipse", <<a.id>>, MapSeq(IdRef, points), <<>>))>>)

\* -line : the same curve, traversed backwards
Neg(v) == [v EXCEPT !.txt = "-" \o @]

LineLoop(g, lines) ==
    IF ~AllOf(HasId, lines) THEN Raise(g, "AttributeError")
    ELSE LET a == Alloc(g, "LINELOOP_ID", "ll")
         IN  Ok(a.g, <<WithCode(Ent("LineLoop", a.id, a.id),
                                Stmt("Line Loop", <<a.id>>, MapSeq(IdRef, lines), <<>>))>>)

\* holes is None (<<NoneV>> is not used: None is the empty sequence) or a list
PlaneSurface(g, line_loop, holes) ==
    IF ~(HasId(line_loop) /\ AllOf(HasId, holes)) THEN Raise(g, "AttributeError")
    ELSE LET a == Alloc(g, "SURFACEBASE_ID", "s")
         IN  Ok(a.g, <<WithCode(Ent("Surface", a.id, a.id),
                                Stmt("Plane Surface", <<a.id>>,
                                     <<IdRef(line_loop)>> \o MapSeq(IdRef, holes), <<>>))>>)

\* number of arcs of a Circle (its num_sections default)
CircleSections == 3

RECURSIVE AllocN(_, _, _, _)
AllocN(g, ctr, prefix, n) ==
    IF n = 0 THEN [g |-> g, ids |-> <<>>]
    ELSE LET a == Alloc(g, ctr, prefix)
             rest == AllocN(a.g, ctr, prefix, n - 1)
         IN  [g |-> rest.g, ids |-> <<a.id>> \o rest.ids]

LineEnt(id) == Ent("Line", id, id)

\* Circle(x0, radius, lcar, R, holes, make_surface): centre and arc points,
\* arcs, line loop and (optionally) plane surface, all in one .code;
\* ret = <<circle, line_loop, plane_surface or None>> \o line_loop.lines
Circle(g, holes, make_surface) ==
    IF ~AllOf(HasId, holes) THEN Raise(g, "AttributeError")
    ELSE LET ps == AllocN(g, "POINT_ID", "p", CircleSections + 1)
             ls == AllocN(ps.g, "LINE_ID", "l", CircleSections)
             ll == Alloc(ls.g, "LINELOOP_ID", "ll")
             s  == IF make_surface THEN Alloc(ll.g, "SURFACEBASE_ID", "s")
                   ELSE [g |-> ll.g, id |-> ""]
             code == Stmt("Circle",
                          ps.ids \o ls.ids \o <<ll.id>>
                              \o (IF make_surface THEN <<s.id>> ELSE <<>>),
                          MapSeq(IdRef, holes), <<>>)
         IN  Ok(s.g, <<WithCode(Ent("Circle", ll.id, ll.id), code),
                       Ent("LineLoop", ll.id, ll.id),
                       IF make_surface THEN Ent("Surface", s.id, s.id) ELSE NoneV>>
                     \o MapSeq(LineEnt, ls.ids))

\* ---------------------------------------------------- composite builders
\* r accumulates the handles created so far in r.ret
AddEntity(r, c) == Then(c, LAMBDA x : Ok(add(x.g, x.ret[1]).g, r.ret \o <<x.ret[1]>>))

\* [self.add(Point(x, lcar)) for x in X]
RECURSIVE add_points(_, _)
add_points(r, n) ==
    IF n = 0 THEN r ELSE add_points(AddEntity(r, Point(r.g)), n - 1)

\* [self.add(Line(p[i], p[j])) for each pair <<i, j>>]
RECURSIVE add_lines(_, _, _)
add_lines(r, p, pairs) ==
    IF pairs = <<>> \/ r.err # "" THEN r
    ELSE add_lines(AddEntity(r, Line(r.g, p[Head(pairs)[1]], p[Head(pairs)[2]])),
                   p, Tail(pairs))

\* [self.add(EllipseArc([p[i], p[j], p[k], p[l]])) for each <<i, j, k, l>>]
RECURSIVE add_arcs(_, _, _)
add_arcs(r, p, quads) ==
    IF quads = <<>> \/ r.err # "" THEN r
    ELSE add_arcs(AddEntity(r, EllipseArc(r.g, [i \in 1..4 |-> p[Head(quads)[i]]])),
                  p, Tail(quads))

\* c[k] or -c[k], k counted from 1
Signed(c, k) == IF k < 0 THEN Neg(c[-k]) ELSE c[k]

\* [self.add(LineLoop([...signed curves...])) for each index list]
RECURSIVE add_loops(_, _, _)
add_loops(r, c, loops) ==
    IF loops = <<>> \/ r.err # "" THEN r
    ELSE add_loops(AddEntity(r, LineLoop(r.g,
                       [i \in 1..Len(Head(loops)) |-> Signed(c, Head(loops)[i])])),
                   c, Tail(loops))

\* [self.add_ruled_surface(l) for l in ll]
RECURSIVE add_ruled_surfaces(_, _)
add_ruled_surfaces(r, ll) ==
    IF ll = <<>> \/ r.err # "" THEN r
    ELSE LET x == add_ruled_surface(r.g, Head(ll))
         IN  add_ruled_surfaces([x EXCEPT !.ret = r.ret \o @], Tail(ll))

Start(g) == Ok(g, <<>>)

\* add_polygon_loop(X, lcar) with n = len(X)
\* a polygon loop whose last edge does not go back to the first point
add_polygon_loop_open(g, n) ==
    LET rp == add_points(Start(g), n)
        p == rp.ret
        rl == add_lines(Start(rp.g), p, [k \in 1..(n - 1) |-> <<k, k + 1>>])
    IN  IF n = 0 THEN Raise(rl.g, "IndexError")
        ELSE LET rc == AddEntity(rl, Line(rl.g, p[n], p[n]))
                 ll == LineLoop(rc.g, rc.ret)
             IN  add(ll.g, ll.ret[1])

add_polygon_loop(g, n) ==
    LET rp == add_points(Start(g), n)
        p == rp.ret
        rl == add_lines(Start(rp.g), p, [k \in 1..(n - 1) |-> <<k, k + 1>>])
    IN  IF n = 0 THEN Raise(rl.g, "IndexError")
        ELSE LET rc == AddEntity(rl, Line(rl.g, p[n], p[1]))
                 ll == LineLoop(rc.g, rc.ret)
             IN  add(ll.g, ll.ret[1])

add_polygon(g, n, holes) ==
    Then(add_polygon_loop(g, n),
         LAMBDA r : Then(PlaneSurface(r.g, r.ret[1], holes),
                         LAMBDA s : add(s.g, s.ret[1])))

add_rectangle(g, holes) == add_polygon(g, 4, holes)

\* a tail that lists the holes before the outer surface loop
ClosedVolumeHolesFirst(r0, with_volume, holes, label) ==
    LET r1 == IF holes # <<>> THEN add_array(r0.g, holes \o r0.ret) ELSE r0
    IN  Then(r1, LAMBDA sl :
          IF with_volume
          THEN LET v == add_volume(sl.g, sl.ret[1])
                   g2 == IF label.t # "none"
                         THEN add_physical_volume(v.g, v.ret[1], label).g
                         ELSE v.g
               IN  Ok(g2, <<v.ret[1], sl.ret[1]>>)
          ELSE Ok(sl.g, <<NoneV, sl.ret[1]>>))

\* the tail shared by add_ellipsoid and add_box: array of holes, volume, label
ClosedVolume(r0, with_volume, holes, label) ==
    LET r1 == IF holes # <<>> THEN add_array(r0.g, r0.ret \o holes) ELSE r0
    IN  Then(r1, LAMBDA sl :
          IF with_volume
          THEN LET v == add_volume(sl.g, sl.ret[1])
                   g2 == IF label.t # "none"
                         THEN add_physical_volume(v.g, v.ret[1], label).g
                         ELSE v.g
               IN  Ok(g2, <<v.ret[1], sl.ret[1]>>)
          ELSE Ok(sl.g, <<NoneV, sl.ret[1]>>))

EllipsoidArcs ==
    << <<2, 1, 7, 7>>, <<7, 1, 5, 5>>, <<5, 1, 4, 4>>, <<4, 1, 2, 2>>,
       <<2, 1, 3, 3>>, <<3, 1, 5, 5>>, <<5, 1, 6, 6>>, <<6, 1, 2, 2>>,
       <<7, 1, 3, 3>>, <<3, 1, 4, 4>>, <<4, 1, 6, 6>>, <<6, 1, 7, 7>> >>

EllipsoidLoops ==
    << <<5, 10, 4>>, <<9, -5, 1>>, <<-10, 6, 3>>, <<-6, -9, 2>>,
       <<8, -4, 11>>, <<12, -8, -1>>, <<-11, -3, 7>>, <<-2, -7, -12>> >>

\* an ellipsoid whose second compound surface takes the fourth ruled surface
\* too
add_ellipsoid_overlapping(g, with_volume, holes, label) ==
    LET p  == add_points(Start(g), 7)
        c  == add_arcs(Start(p.g), p.ret, EllipsoidArcs)
        ll == add_loops(Start(c.g), c.ret, EllipsoidLoops)
        s  == add_ruled_surfaces(Start(ll.g), ll.ret)
        n1 == add_compound_surface(s.g, SubSeq(s.ret, 1, 4))
        n2 == add_compound_surface(n1.g, SubSeq(s.ret, 4, 8))
        sl == add_surface_loop(n2.g, n1.ret \o n2.ret)
    IN  ClosedVolume(sl, with_volume, holes, label)

add_ellipsoid(g, with_volume, holes, label) ==
    LET p  == add_points(Start(g), 7)
        c  == add_arcs(Start(p.g), p.ret, EllipsoidArcs)
        ll == add_loops(Start(c.g), c.ret, EllipsoidLoops)
        s  == add_ruled_surfaces(Start(ll.g), ll.ret)
        n1 == add_compound_surface(s.g, SubSeq(s.ret, 1, 4))
        n2 == add_compound_surface(n1.g, SubSeq(s.ret, 5, 8))
        sl == add_surface_loop(n2.g, n1.ret \o n2.ret)
    IN  ClosedVolume(sl, with_volume, holes, label)

\* a ball that does not hand its label on
add_ball_unlabelled(g, with_volume, holes, label) ==
    add_ellipsoid(g, with_volume, holes, NoneV)

add_ball(g, with_volume, holes, label) == add_ellipsoid(g, with_volume, holes, label)

BoxEdges ==
    << <<1, 2>>, <<1, 3>>, <<1, 5>>, <<2, 4>>, <<2, 6>>, <<3, 4>>,
       <<3, 7>>, <<4, 8>>, <<5, 6>>, <<5, 7>>, <<6, 8>>, <<7, 8>> >>

BoxLoops ==
    << <<1, 4, -6, -2>>, <<1, 5, -9, -3>>, <<2, 7, -10, -3>>,
       <<4, 8, -11, -5>>, <<6, 8, -12, -7>>, <<9, 11, -12, -10>> >>

\* a box that defines its volume whatever with_volume says
add_box_always_volume(g, with_volume, holes, label) ==
    LET p  == add_points(Start(g), 8)
        e  == add_lines(Start(p.g), p.ret, BoxEdges)
        ll == add_loops(Start(e.g), e.ret, BoxLoops)
        s  == add_ruled_surfaces(Start(ll.g), ll.ret)
        sl == add_surface_loop(s.g, s.ret)
    IN  ClosedVolume(sl, TRUE, holes, label)

add_box(g, with_volume, holes, label) ==
    LET p  == add_points(Start(g), 8)
        e  == add_lines(Start(p.g), p.ret, BoxEdges)
        ll == add_loops(Start(e.g), e.ret, BoxLoops)
        s  == add_ruled_surfaces(Start(ll.g), ll.ret)
        sl == add_surface_loop(s.g, s.ret)
    IN  ClosedVolume(sl, with_volume, holes, label)

\* what an object made by a builder holds: at its construction and at the
\* end of the call that made it
Held(owner, built, now) == [owner |-> owner, built |-> built, now |-> now]

\* the two point references of each Line of a list; no statement of the
\* builders assigns to a Line
HeldEdges(e) ==
    [j \in 1..Len(e) |-> Held(e[j], e[j].code.refs, e[j].code.refs)]

\* the element of a one-element set
The(S) == CHOOSE x \in S : TRUE

\* the three chained rotations of add_torus / add_pipe
Angle == Str("2*Pi/3", "")

LineRef(v) == Str("Line{" \o v.txt \o "}", v.sym)

SurfaceRef(v) == Str("Surface{" \o v.txt \o "}", v.sym)

\* a round that extrudes every curve and keeps previous as it was
RECURSIVE RotateCurvesUnchained(_, _)
RotateCurvesUnchained(st, k) ==
    IF k > Len(st.previous) THEN st
    ELSE LET x == extrude(st.g, LineRef(st.previous[k]), FALSE, TRUE, TRUE, Angle)
         IN  RotateCurvesUnchained([g |-> x.g,
                                    previous |-> st.previous,
                                    all_surfaces |-> Append(st.all_surfaces, x.ret[2])],
                                   k + 1)

\* for k in range(len(previous)): extrude, collect surf, previous[k] = top
RECURSIVE RotateCurves(_, _)
RotateCurves(st, k) ==
    IF k > Len(st.previous) THEN st
    ELSE LET x == extrude(st.g, LineRef(st.previous[k]), FALSE, TRUE, TRUE, Angle)
         IN  RotateCurves([g |-> x.g,
                           previous |-> [st.previous EXCEPT ![k] = x.ret[1]],
                           all_surfaces |-> Append(st.all_surfaces, x.ret[2])],
                          k + 1)

\* for i in range(3): comment, then one round over all curves
RECURSIVE RotateRounds(_, _, _)
RotateRounds(st, i, comment) ==
    IF i > 3 THEN st
    ELSE RotateRounds(
             RotateCurves([st EXCEPT !.g = add_comment(@, comment \o ToString(i)).g], 1),
             i + 1, comment)

\* surface loop, volume and optional physical volume closing a rotation
RotatedVolume(st, label) ==
    LET sl == add_surface_loop(st.g, st.all_surfaces)
        v  == add_volume(sl.g, sl.ret[1])
    IN  IF label.t # "none" THEN add_physical_volume(v.g, v.ret[1], label).g ELSE v.g

Rule == "----------------------------------------------------------------------------"

add_torus_extrude_lines(g, label) ==
    LET g1 == add_comment(add_comment(g, Rule).g, "Torus").g
        c  == Circle(g1, <<>>, TRUE)
        g2 == add(c.g, c.ret[1]).g
        \* previous = c.line_loop.lines is the list the line loop holds, and
        \* previous[k] = top assigns into it
        done(ci, st) ==
            [g |-> add_comment(RotatedVolume(st, label), Rule \o "\n").g,
             ret |-> <<NoneV>>, err |-> "",
             payload |-> <<Held(ci[2], SubSeq(ci, 4, Len(ci)), st.previous)>>]
    IN  The({done(ci, RotateRounds([g |-> g2, previous |-> SubSeq(ci, 4, Len(ci)),
                                    all_surfaces |-> <<>>], 1, "Round no. ")) :
                ci \in {c.ret}})

\* three extrusions of the one surface, previous kept as it was
RECURSIVE RotateSurfaceUnchained(_, _)
RotateSurfaceUnchained(st, i) ==
    IF i > 3 THEN st
    ELSE LET x == extrude(st.g, SurfaceRef(st.previous), FALSE, TRUE, TRUE, Angle)
         IN  RotateSurfaceUnchained([g |-> x.g, previous |-> st.previous,
                                     all_volumes |-> Append(st.all_volumes, x.ret[2])],
                                    i + 1)

\* for _ in range(num_steps): extrude the surface, previous = top
RECURSIVE RotateSurface(_, _)
RotateSurface(st, i) ==
    IF i > 3 THEN st
    ELSE LET x == extrude(st.g, SurfaceRef(st.previous), FALSE, TRUE, TRUE, Angle)
         IN  RotateSurface([g |-> x.g, previous |-> x.ret[1],
                            all_volumes |-> Append(st.all_volumes, x.ret[2])], i + 1)

add_torus_extrude_circle(g, label) ==
    LET g1 == add_comment(add_comment(g, Rule).g, "Torus").g
        c  == Circle(g1, <<>>, TRUE)
        g2 == add(c.g, c.ret[1]).g
        st == RotateSurface([g |-> g2, previous |-> c.ret[3], all_volumes |-> <<>>], 1)
        v  == add_compound_volume(st.g, st.all_volumes)
        g3 == IF label.t # "none" THEN add_physical_volume(v.g, v.ret[1], label).g
              ELSE v.g
    IN  Ok(add_comment(g3, Rule \o "\n").g, <<NoneV>>)

\* a dispatch that takes every unrecognized variant for the default one
add_torus_default_variant(g, irad, orad, label, variant) ==
    IF variant = "extrude_circle" THEN add_torus_extrude_circle(g, label)
    ELSE add_torus_extrude_lines(g, label)

add_torus(g, irad, orad, label, variant) ==
    IF variant = "extrude_lines" THEN add_torus_extrude_lines(g, label)
    ELSE IF variant = "extrude_circle" THEN add_torus_extrude_circle(g, label)
    ELSE Raise(g, "ValueError")

add_pipe_by_rectangle_rotation(g, label) ==
    LET g1 == add_comment(g, "Define rectangle.").g
        p  == add_points(Start(g1), 4)
        e  == add_lines(Start(p.g), p.ret, << <<1, 2>>, <<2, 3>>, <<3, 4>>, <<4, 1>> >>)
        g2 == add_comment(e.g, "Extrude in 3 steps.").g
        st == RotateRounds([g |-> g2, previous |-> e.ret, all_surfaces |-> <<>>],
                           1, "Step ")
    IN  The({[g |-> RotatedVolume(st, label), ret |-> <<NoneV>>, err |-> "",
              payload |-> HeldEdges(edges)] : edges \in {e.ret}})

add_pipe_by_circle_extrusion(g, label) ==
    LET ci == Circle(g, <<>>, FALSE)
        g1 == add(ci.g, ci.ret[1]).g
        c  == Circle(g1, <<ci.ret[2]>>, TRUE)
        g2 == add(c.g, c.ret[1]).g
        x  == extrude(g2, SurfaceRef(c.ret[3]), TRUE, FALSE, FALSE, NoneV)
        g3 == IF label.t # "none" THEN add_physical_volume(x.g, x.ret[2], label).g
              ELSE x.g
    IN  Ok(g3, <<x.ret[2]>>)

add_pipe(g, label, variant) ==
    IF variant = "rectangle_rotation" THEN add_pipe_by_rectangle_rotation(g, label)
    ELSE IF variant = "circle_extrusion" THEN add_pipe_by_circle_extrusion(g, label)
    ELSE Raise(g, "ValueError")

\* ------------------------------------------------ opencascade.Geometry
\* SurfaceBase() / VolumeBase() and their subclasses (rectangle.py, disk.py,
\* ball.py, box.py, cylinder.py, torus.py, surface_base.py, volume_base.py)
OccDim(shape) == IF shape \in {"Rectangle", "Disk"} THEN "Surface" ELSE "Volume"

OccEntity(g, shape) ==
    LET a == IF OccDim(shape) = "Surface" THEN Alloc(g, "SURFACEBASE_ID", "s")
             ELSE Alloc(g, "VOLUMEBASE_ID", "vol")
    IN  Ok(a.g, <<WithCode(Ent(OccDim(shape), a.id, a.id),
                           Stmt(shape, <<a.id>>, <<>>, <<>>))>>)

\* add_rectangle, add_disk, add_ball, add_box, add_cylinder, add_torus of
\* opencascade.Geometry: p = Shape(...); self._GMSH_CODE.append(p.code)
occ_add(g, shape) ==
    LET p == OccEntity(g, shape)
    IN  Ok(Emit(p.g, p.ret[1].code), p.ret)

legal_dim_types == {"Line", "Surface", "Volume"}

\* isinstance(e, dim_type)
IsInstance(e, dim_type) == HasId(e) /\ e.dim = dim_type

\* a statement that deletes the objects only
BoolStmtKeepTools(name, operation, dim, input_entities, tool_entities, delete) ==
    [kind |-> operation, defs |-> <<name>>,
     refs |-> MapSeq(IdRef, input_entities),
     tools |-> MapSeq(IdRef, tool_entities),
     attr |-> <<dim, IF delete THEN "Delete;" ELSE "", "">>]

BoolStmt(name, operation, dim, input_entities, tool_entities, delete) ==
    [kind |-> operation, defs |-> <<name>>,
     refs |-> MapSeq(IdRef, input_entities),
     tools |-> MapSeq(IdRef, tool_entities),
     attr |-> <<dim, IF delete THEN "Delete;" ELSE "", IF delete THEN "Delete;" ELSE "">>]

\* a boolean operation that checks the first entity only
boolean_operation_first_only(g, operation, input_entities, tool_entities, delete) ==
    LET g1 == [g EXCEPT !.BOOLEAN_ID = @ + 1]
        name == Name("bo", g1.BOOLEAN_ID)
    IN  IF input_entities = <<>> THEN Raise(g1, "IndexError")
        ELSE LET first == input_entities[1]
             IN  IF ~(\E d \in legal_dim_types : IsInstance(first, d))
                 THEN Raise(g1, "AssertionError")
                 ELSE Ok(Emit(Issue(g1, "BOOLEAN_ID", name),
                              [kind |-> operation, defs |-> <<name>>,
                               refs |-> MapSeq(IdRef, input_entities),
                               tools |-> MapSeq(IdRef, tool_entities),
                               attr |-> <<first.dim, "", "">>]),
                         <<[Ent(first.dim, name, name) EXCEPT !.list = TRUE]>>)

\* a boolean operation that takes its number only once the entities have
\* passed the checks
boolean_operation_check_first(g, operation, input_entities, tool_entities, delete) ==
    LET g1 == [g EXCEPT !.BOOLEAN_ID = @ + 1]
        name == Name("bo", g1.BOOLEAN_ID)
    IN  IF input_entities = <<>> THEN Raise(g, "IndexError")
        ELSE LET first == input_entities[1]
             IN  IF ~(\E d \in legal_dim_types : IsInstance(first, d))
                 THEN Raise(g, "AssertionError")
                 ELSE IF ~AllOf(LAMBDA e : IsInstance(e, first.dim),
                                Tail(input_entities) \o tool_entities)
                 THEN Raise(g, "AssertionError")
                 ELSE Ok(Emit(Issue(g1, "BOOLEAN_ID", name),
                              BoolStmt(name, operation, first.dim, input_entities,
                                       tool_entities, delete)),
                         <<[Ent(first.dim, name, name) EXCEPT !.list = TRUE]>>)

boolean_operation(g, operation, input_entities, tool_entities, delete) ==
    LET g1 == [g EXCEPT !.BOOLEAN_ID = @ + 1]
        name == Name("bo", g1.BOOLEAN_ID)
    IN  IF input_entities = <<>> THEN Raise(g1, "IndexError")
        ELSE LET first == input_entities[1]
             IN  IF ~(\E d \in legal_dim_types : IsInstance(first, d))
                 THEN Raise(g1, "AssertionError")
                 ELSE IF ~AllOf(LAMBDA e : IsInstance(e, first.dim),
                                Tail(input_entities) \o tool_entities)
                 THEN Raise(g1, "AssertionError")
                 ELSE Ok(Emit(Issue(g1, "BOOLEAN_ID", name),
                              BoolStmt(name, operation, first.dim, input_entities,
                                       tool_entities, delete)),
                         <<[Ent(first.dim, name, name) EXCEPT !.list = TRUE]>>)

boolean_intersection(g, entities, delete) ==
    IF ~(Len(entities) > 1) THEN Raise(g, "AssertionError")
    ELSE boolean_operation(g, "BooleanIntersection", <<entities[1]>>,
                           Tail(entities), delete)

boolean_union(g, entities, delete) ==
    IF entities = <<>> THEN Raise(g, "IndexError")
    ELSE boolean_operation(g, "BooleanUnion", <<entities[1]>>, Tail(entities), delete)

boolean_difference(g, input_entities, tool_entities, delete) ==
    boolean_operation(g, "BooleanDifference", input_entities, tool_entities, delete)

boolean_fragments(g, input_entities, tool_entities, delete) ==
    boolean_operation(g, "BooleanFragments", input_entities, tool_entities, delete)

\* an extrude whose two results are both of the kind of the source
occ_extrude_same_kind(g, input_entity, translation_axis) ==
    LET g1 == [g EXCEPT !.EXTRUDE_ID = @ + 1]
        name == Name("ex", g1.EXTRUDE_ID)
        entity == IF IsStr(input_entity) THEN Dummy(input_entity.txt, input_entity.sym)
                  ELSE IF IsInstance(input_entity, "Surface")
                          \/ IsInstance(input_entity, "WithSurface")
                  THEN Dummy(SurfaceRef(input_entity).txt, input_entity.sym)
                  ELSE Dummy(LineRef(input_entity).txt, input_entity.sym)
        top == name \o "[0]"
        extruded == name \o "[1]"
    IN  IF ~IsStr(input_entity) /\ ~IsInstance(input_entity, "Surface")
           /\ ~IsInstance(input_entity, "WithSurface")
           /\ ~IsInstance(input_entity, "Line")
        THEN Raise(g1, "AssertionError")
        ELSE IF ~translation_axis THEN Raise(Issue(g1, "EXTRUDE_ID", name), "TypeError")
        ELSE Ok(Emit(Issue(g1, "EXTRUDE_ID", name), Stmt("Extrude", <<name>>, <<IdRef(entity)>>,
                                           <<"translation">>)),
                IF IsInstance(input_entity, "Line")
                THEN <<Ent("Line", top, name), Ent("Line", extruded, name)>>
                ELSE IF IsInstance(input_entity, "Surface")
                THEN <<Ent("Surface", top, name), Ent("Surface", extruded, name)>>
                ELSE <<Dummy(top, name), Dummy(extruded, name)>>)

\* opencascade.Geometry.extrude; translation_axis is given (TRUE) or None
occ_extrude(g, input_entity, translation_axis) ==
    LET g1 == [g EXCEPT !.EXTRUDE_ID = @ + 1]
        name == Name("ex", g1.EXTRUDE_ID)
        entity == IF IsStr(input_entity) THEN Dummy(input_entity.txt, input_entity.sym)
                  ELSE IF IsInstance(input_entity, "Surface")
                          \/ IsInstance(input_entity, "WithSurface")
                  THEN Dummy(SurfaceRef(input_entity).txt, input_entity.sym)
                  ELSE Dummy(LineRef(input_entity).txt, input_entity.sym)
        top == name \o "[0]"
        extruded == name \o "[1]"
    IN  IF ~IsStr(input_entity) /\ ~IsInstance(input_entity, "Surface")
           /\ ~IsInstance(input_entity, "WithSurface")
           /\ ~IsInstance(input_entity, "Line")
        THEN Raise(g1, "AssertionError")
        ELSE IF ~translation_axis THEN Raise(Issue(g1, "EXTRUDE_ID", name), "TypeError")
        ELSE Ok(Emit(Issue(g1, "EXTRUDE_ID", name), Stmt("Extrude", <<name>>, <<IdRef(entity)>>,
                                           <<"translation">>)),
                IF IsInstance(input_entity, "Line")
                THEN <<Ent("Line", top, name), Ent("Surface", extruded, name)>>
                ELSE IF IsInstance(input_entity, "Surface")
                THEN <<Ent("Surface", top, name), Ent("Volume", extruded, name)>>
                ELSE <<Dummy(top, name), Dummy(extruded, name)>>)

\* ------------------------------------------------------- the caller
\* Arguments are drawn from what the previous call returned, from values the
\* caller makes up (a name or an object no statement of this session
\* defines) and from None.
NoArgs == [ents |-> <<>>, tools |-> <<>>, opts |-> {}, variant |-> "", n |-> 0]

Recent == SelectSeq(last.ret, LAMBDA v : v.t # "none")

ForeignStr == Str("mysurf", "mysurf")

ForeignEnt == Dummy("myent", "myent")

Label == Str("label", "")

\* the first value the previous call returned, else a made-up one
FirstOr(v) == IF Recent # <<>> THEN Recent[1] ELSE v

\* lists of objects with an .id, and one holding a str
EntLists == {Recent \o <<ForeignEnt>>, <<ForeignStr>>}

\* lists of names, and one holding an object
StrLists == {Recent \o <<ForeignStr>>, <<ForeignEnt>>}

\* the keyword arguments given to opencascade.Geometry()
LengthOpts(hasMin, hasMax) ==
    (IF hasMin THEN {"characteristic_length_min"} ELSE {})
    \cup (IF hasMax THEN {"characteristic_length_max"} ELSE {})

\* the objects a call made and kept a list of, as the call left them
Payload(r) == IF "payload" \in DOMAIN r THEN r.payload ELSE <<>>

Init ==
    /\ \/ /\ geom = NewBuiltin
          /\ last = [op |-> "__init__", args |-> NoArgs, err |-> "", ret |-> <<>>,
                     pre |-> geom, payload |-> <<>>]
       \/ \E a, b \in BOOLEAN :
            /\ geom = NewOcc(a, b)
            /\ last = [op |-> "__init__",
                       args |-> [NoArgs EXCEPT !.opts = LengthOpts(a, b)],
                       err |-> "", ret |-> <<>>, pre |-> geom, payload |-> <<>>]
    /\ calls = 0
    /\ others = <<>>

\* one public call: r is the method's result on the current session
Call(op, args, r) ==
    /\ calls < MaxCalls
    /\ \E x \in {r} :
         /\ geom' = x.g
         /\ last' = [op |-> op, args |-> args, err |-> x.err, ret |-> x.ret,
                     pre |-> geom, payload |-> Payload(x)]
    /\ calls' = calls + 1
    /\ others' = others

Builtin == geom.cls = "builtin"

Occ == geom.cls = "occ"

AddPoint ==
    /\ Builtin
    /\ LET e == Point(geom)
       IN  Call("add", [NoArgs EXCEPT !.ents = e.ret], add(e.g, e.ret[1]))

\* geom.add(e) for an object e the previous call has returned: add appends
\* e.code whether or not the log holds it already
AddExisting ==
    /\ Builtin
    /\ \E i \in 1..Len(Recent) :
         /\ HasId(Recent[i]) /\ Recent[i].code # NoCode
         /\ Call("add", [NoArgs EXCEPT !.ents = <<Recent[i]>>, !.opts = {"existing"}],
                 add(geom, Recent[i]))

\* geom.add(Line(p0, p1)) / add(LineLoop(lines)) / add(PlaneSurface(ll, holes))
\* / add(Circle(...)): a constructor that raises leaves the session as it was
\* but for the counters the constructor advanced
Constructed(op, xs, e) ==
    Call(op, [NoArgs EXCEPT !.ents = xs], Then(e, LAMBDA x : add(x.g, x.ret[1])))

AddLine ==
    /\ Builtin
    /\ \E xs \in {Recent, Recent \o <<ForeignEnt>>} :
         /\ Len(xs) = 2
         /\ Constructed("add", xs, Line(geom, xs[1], xs[2]))

AddLineLoop ==
    /\ Builtin
    /\ \E xs \in {Recent \o <<ForeignEnt>>} :
         Constructed("add", xs, LineLoop(geom, xs))

AddPlaneSurface ==
    /\ Builtin
    /\ \E ll \in {FirstOr(ForeignEnt)} :
         Constructed("add", <<ll>>, PlaneSurface(geom, ll, <<>>))

AddCircle ==
    /\ Builtin
    /\ LET c == Circle(geom, <<>>, TRUE)
       IN  Call("add", NoArgs, Ok(add(c.g, c.ret[1]).g, <<c.ret[1]>>))

AddRuledSurface ==
    /\ Builtin
    /\ \E ll \in {FirstOr(ForeignEnt), ForeignStr} :
         Call("add_ruled_surface", [NoArgs EXCEPT !.ents = <<ll>>],
              add_ruled_surface(geom, ll))

AddCompoundSurface ==
    /\ Builtin
    /\ \E xs \in EntLists :
         Call("add_compound_surface", [NoArgs EXCEPT !.ents = xs],
              add_compound_surface(geom, xs))

AddSurfaceLoop ==
    /\ Builtin
    /\ \E xs \in EntLists :
         Call("add_surface_loop", [NoArgs EXCEPT !.ents = xs],
              add_surface_loop(geom, xs))

AddVolume ==
    /\ Builtin
    /\ \E sl \in {FirstOr(ForeignStr), NoneV} :
         Call("add_volume", [NoArgs EXCEPT !.ents = <<sl>>], add_volume(geom, sl))

AddCompoundVolume ==
    /\ Builtin
    /\ \E xs \in EntLists :
         Call("add_compound_volume", [NoArgs EXCEPT !.ents = xs],
              add_compound_volume(geom, xs))

Labels == {NoneV, Label}

LabelOpt(label) == IF label.t = "none" THEN {} ELSE {"label"}

AddPhysicalPoint ==
    /\ Builtin
    /\ \E e \in {FirstOr(ForeignStr)} :
         Call("add_physical_point", [NoArgs EXCEPT !.ents = <<e>>],
              add_physical_point(geom, e, NoneV))

AddPhysicalLine ==
    /\ Builtin
    /\ \E e \in {FirstOr(ForeignStr)} :
         Call("add_physical_line", [NoArgs EXCEPT !.ents = <<e>>],
              add_physical_line(geom, e, NoneV))

AddPhysicalSurface ==
    /\ Builtin
    /\ \E e \in {FirstOr(ForeignStr)} :
         Call("add_physical_surface", [NoArgs EXCEPT !.ents = <<e>>],
              add_physical_surface(geom, e, NoneV))

AddPhysicalVolume ==
    /\ Builtin
    /\ \E e \in {FirstOr(ForeignStr)}, label \in Labels :
         Call("add_physical_volume",
              [NoArgs EXCEPT !.ents = <<e>>, !.opts = LabelOpt(label)],
              add_physical_volume(geom, e, label))

AxisOpts(t, r, p) ==
    (IF t THEN {"translation_axis"} ELSE {})
    \cup (IF r THEN {"rotation_axis"} ELSE {})
    \cup (IF p THEN {"point_on_axis"} ELSE {})

Extrude ==
    /\ Builtin
    /\ \E entity \in {FirstOr(ForeignStr), NoneV}, t, r, p \in BOOLEAN :
         /\ p => r
         /\ entity.t = "none" => (t /\ ~r)
         /\ Call("extrude",
                 [NoArgs EXCEPT !.ents = <<entity>>, !.opts = AxisOpts(t, r, p)],
                 extrude(geom, entity, t, r, p, IF r THEN Angle ELSE NoneV))

AddBoundaryLayer ==
    /\ Builtin
    /\ \E which \in {"none", "edges_list", "faces_list", "nodes_list"},
          xs \in {<<>>} \cup EntLists \cup StrLists,
          given \in {{}, {"hfar", "ratio"}} :
         /\ (which = "none") = (xs = <<>>)
         /\ (given # {}) = (which = "none")
         /\ which = "nodes_list" => xs = Recent \o <<ForeignEnt>>
         /\ Call("add_boundary_layer",
                 [NoArgs EXCEPT !.ents = xs, !.opts = given, !.variant = which],
                 add_boundary_layer(geom,
                                    IF which = "edges_list" THEN xs ELSE <<>>,
                                    IF which = "faces_list" THEN xs ELSE <<>>,
                                    IF which = "nodes_list" THEN xs ELSE <<>>,
                                    given))

AddBackgroundField ==
    /\ Builtin
    /\ \E xs \in StrLists :
         Call("add_background_field", [NoArgs EXCEPT !.ents = xs],
              add_background_field(geom, xs, "Min"))

AddArray ==
    /\ Builtin
    /\ \E xs \in StrLists :
         Call("add_array", [NoArgs EXCEPT !.ents = xs], add_array(geom, xs))

AddComment ==
    /\ Builtin
    /\ Call("add_comment", NoArgs, add_comment(geom, "note"))

AddRawCode ==
    /\ Builtin
    /\ \E isStr \in BOOLEAN :
         Call("add_raw_code", [NoArgs EXCEPT !.opts = IF isStr THEN {"str"} ELSE {}],
              add_raw_code(geom, isStr,
                           IF isStr THEN <<"raw;">> ELSE <<"raw;", "code;">>))

AddRectangle ==
    /\ Builtin
    /\ \E holes \in {<<>>, <<ForeignStr>>} :
         Call("add_rectangle", [NoArgs EXCEPT !.ents = holes, !.n = 4],
              add_rectangle(geom, holes))

AddPolygonLoop ==
    /\ Builtin
    /\ \E n \in 0..MaxPoints :
         Call("add_polygon_loop", [NoArgs EXCEPT !.n = n], add_polygon_loop(geom, n))

AddPolygon ==
    /\ Builtin
    /\ \E n \in 1..MaxPoints, holes \in {<<>>, <<ForeignEnt>>} :
         /\ holes # <<>> => n = MaxPoints
         /\ Call("add_polygon", [NoArgs EXCEPT !.ents = holes, !.n = n],
                 add_polygon(geom, n, holes))

\* (with_volume, holes, label) of add_ellipsoid, add_ball and add_box
SolidOpts(with_volume, label) ==
    (IF with_volume THEN {"with_volume"} ELSE {}) \cup LabelOpt(label)

SolidArgs ==
    {<<w, h, l>> \in BOOLEAN \X ({<<>>} \cup StrLists) \X Labels :
        /\ ~w => l.t = "none"
        /\ w => (l.t = "none") = (h \in {<<>>, <<ForeignEnt>>})}

AddEllipsoid ==
    /\ Builtin
    /\ \E a \in SolidArgs :
         Call("add_ellipsoid",
              [NoArgs EXCEPT !.ents = a[2], !.opts = SolidOpts(a[1], a[3])],
              add_ellipsoid(geom, a[1], a[2], a[3]))

AddBall ==
    /\ Builtin
    /\ \E a \in SolidArgs :
         Call("add_ball",
              [NoArgs EXCEPT !.ents = a[2], !.opts = SolidOpts(a[1], a[3])],
              add_ball(geom, a[1], a[2], a[3]))

AddBox ==
    /\ Builtin
    /\ \E a \in SolidArgs :
         Call("add_box",
              [NoArgs EXCEPT !.ents = a[2], !.opts = SolidOpts(a[1], a[3])],
              add_box(geom, a[1], a[2], a[3]))

TorusVariants == {"extrude_lines", "extrude_circle", "extrude_surface"}

PipeVariants == {"rectangle_rotation", "circle_extrusion", "circle_rotation"}

\* radii of the torus: orad, and irad at most orad
Radii == {<<1, 2>>, <<2, 2>>}

AddTorus ==
    /\ Builtin
    /\ \E variant \in TorusVariants, label \in Labels, rad \in Radii :
         /\ (label.t # "none" \/ variant \notin {"extrude_lines", "extrude_circle"})
               => rad = <<1, 2>>
         /\ Call("add_torus",
                 [NoArgs EXCEPT !.opts = LabelOpt(label), !.variant = variant,
                                !.n = rad[2] - rad[1]],
                 add_torus(geom, rad[1], rad[2], label, variant))

AddPipe ==
    /\ Builtin
    /\ \E variant \in PipeVariants, label \in Labels :
         /\ variant \notin {"rectangle_rotation", "circle_extrusion"} => label.t = "none"
         /\ Call("add_pipe",
                 [NoArgs EXCEPT !.opts = LabelOpt(label), !.variant = variant],
                 add_pipe(geom, label, variant))

\* ---- opencascade.Geometry
OccAdd(op, shape) == Call(op, NoArgs, occ_add(geom, shape))

OccAddRectangle == Occ /\ OccAdd("add_rectangle", "Rectangle")

OccAddDisk == Occ /\ OccAdd("add_disk", "Disk")

OccAddBall == Occ /\ OccAdd("add_ball", "Ball")

OccAddBox == Occ /\ OccAdd("add_box", "Box")

OccAddCylinder == Occ /\ OccAdd("add_cylinder", "Cylinder")

OccAddTorus == Occ /\ OccAdd("add_torus", "Torus")

\* an object of a shape class that was constructed but never added
ForeignVolume == Ent("Volume", "vol9", "vol9")

ForeignLine == Ent("Line", "l9", "l9")

\* an object with a .surface attribute, neither a line nor a surface itself
SurfaceHolder == Ent("WithSurface", "s9", "s9")

Operand == IF Recent # <<>> THEN Recent[1] ELSE ForeignVolume

\* another object of the same class as v, and one of another class
Same(v) == Ent(v.dim, "other", "other")

Other(v) == Ent(IF v.dim = "Volume" THEN "Surface" ELSE "Volume", "other", "other")

\* entity lists of a boolean call and the delete flag
BooleanArgs ==
    {<<xs, d>> \in {<<>>, <<Operand>>, <<Operand, Same(Operand)>>,
                    <<Operand, Other(Operand)>>, <<ForeignEnt, Operand>>} \X BOOLEAN :
        ~d => xs = <<Operand, Same(Operand)>>}

DeleteOpt(d) == IF d THEN {"delete"} ELSE {}

BooleanIntersection ==
    /\ Occ
    /\ \E a \in BooleanArgs :
         Call("boolean_intersection",
              [NoArgs EXCEPT !.ents = a[1], !.opts = DeleteOpt(a[2])],
              boolean_intersection(geom, a[1], a[2]))

BooleanUnion ==
    /\ Occ
    /\ \E a \in BooleanArgs :
         Call("boolean_union",
              [NoArgs EXCEPT !.ents = a[1], !.opts = DeleteOpt(a[2])],
              boolean_union(geom, a[1], a[2]))

\* (input_entities, tool_entities) of boolean_difference / boolean_fragments
Objects(xs) == IF xs = <<>> THEN <<>> ELSE <<xs[1]>>

Tools(xs) == IF xs = <<>> THEN <<Operand>> ELSE Tail(xs)

BooleanDifference ==
    /\ Occ
    /\ \E a \in BooleanArgs :
         Call("boolean_difference",
              [NoArgs EXCEPT !.ents = Objects(a[1]), !.tools = Tools(a[1]),
                             !.opts = DeleteOpt(a[2])],
              boolean_difference(geom, Objects(a[1]), Tools(a[1]), a[2]))

BooleanFragments ==
    /\ Occ
    /\ \E a \in BooleanArgs :
         Call("boolean_fragments",
              [NoArgs EXCEPT !.ents = Objects(a[1]), !.tools = Tools(a[1]),
                             !.opts = DeleteOpt(a[2])],
              boolean_fragments(geom, Objects(a[1]), Tools(a[1]), a[2]))

OccExtrude ==
    /\ Occ
    /\ \E e \in {Operand, ForeignLine, SurfaceHolder, ForeignStr, NoneV},
          t \in BOOLEAN :
         /\ ~t => e = Operand
         /\ Call("extrude",
                 [NoArgs EXCEPT !.ents = <<e>>,
                                !.opts = IF t THEN {"translation_axis"} ELSE {}],
                 occ_extrude(geom, e, t))

Next ==
    \/ AddPoint \/ AddExisting
    \/ AddLine \/ AddLineLoop \/ AddPlaneSurface \/ AddCircle
    \/ AddRuledSurface \/ AddCompoundSurface \/ AddSurfaceLoop \/ AddVolume
    \/ AddCompoundVolume
    \/ AddPhysicalPoint \/ AddPhysicalLine \/ AddPhysicalSurface \/ AddPhysicalVolume
    \/ Extrude \/ AddBoundaryLayer \/ AddBackgroundField \/ AddArray
    \/ AddComment \/ AddRawCode
    \/ AddRectangle \/ AddPolygonLoop \/ AddPolygon
    \/ AddEllipsoid \/ AddBall \/ AddBox \/ AddTorus \/ AddPipe
    \/ OccAddRectangle \/ OccAddDisk \/ OccAddBall \/ OccAddBox \/ OccAddCylinder
    \/ OccAddTorus
    \/ BooleanIntersection \/ BooleanUnion \/ BooleanDifference \/ BooleanFragments
    \/ OccExtrude

Spec == Init /\ [][Next]_vars

\* ------------------------------------------- several sessions in a process
\* a second (third, ...) Geometry object is constructed
NewGeometry ==
    /\ Len(others) + 1 < MaxSessions
    /\ \E cls \in {"builtin", "occ"}, a, b \in BOOLEAN :
         /\ cls = "builtin" => ~a /\ ~b
         /\ LET s == NewSession(<<geom>> \o others, cls, a, b)
            IN  /\ others' = Append(others, s)
                /\ last' = [op |-> "__init__",
                            args |-> [NoArgs EXCEPT !.opts = LengthOpts(a, b)],
                            err |-> "", ret |-> <<>>, pre |-> s, payload |-> <<>>]
    /\ geom' = geom
    /\ calls' = calls

\* one public call on the k-th of the other sessions: a method assigns to
\* attributes of self only
OtherCall(k, op, args, r) ==
    /\ calls < MaxCalls
    /\ \E x \in {r} :
         /\ others' = [others EXCEPT ![k] = x.g]
         /\ last' = [op |-> op, args |-> args, err |-> x.err, ret |-> x.ret,
                     pre |-> others[k], payload |-> Payload(x)]
    /\ geom' = geom
    /\ calls' = calls + 1

OtherAddComment ==
    \E k \in 1..Len(others) :
        /\ others[k].cls = "builtin"
        /\ OtherCall(k, "add_comment", NoArgs, add_comment(others[k], "note"))

OtherAddPhysicalVolume ==
    \E k \in 1..Len(others) :
        /\ others[k].cls = "builtin"
        /\ OtherCall(k, "add_physical_volume", [NoArgs EXCEPT !.ents = <<ForeignStr>>],
                     add_physical_volume(others[k], ForeignStr, NoneV))

OtherExtrude ==
    \E k \in 1..Len(others) :
        /\ others[k].cls = "builtin"
        /\ OtherCall(k, "extrude",
                     [NoArgs EXCEPT !.ents = <<ForeignStr>>,
                                    !.opts = AxisOpts(TRUE, FALSE, FALSE)],
                     extrude(others[k], ForeignStr, TRUE, FALSE, FALSE, NoneV))

OtherOccExtrude ==
    \E k \in 1..Len(others) :
        /\ others[k].cls = "occ"
        /\ OtherCall(k, "extrude",
                     [NoArgs EXCEPT !.ents = <<ForeignStr>>,
                                    !.opts = {"translation_axis"}],
                     occ_extrude(others[k], ForeignStr, TRUE))

NextSessions ==
    \/ NewGeometry
    \/ AddComment \/ AddPhysicalVolume \/ Extrude \/ OccExtrude
    \/ OtherAddComment \/ OtherAddPhysicalVolume \/ OtherExtrude \/ OtherOccExtrude

SpecSessions == Init /\ [][NextSessions]_vars

\* -------------------------------------------------------------- properties
Range(xs) == {xs[i] : i \in 1..Len(xs)}

IsPrefix(xs, ys) == Len(xs) <= Len(ys) /\ SubSeq(ys, 1, Len(xs)) = xs

\* the log now, the log when the last call began, and what the call appended
Log == geom.GMSH_CODE

LogBefore == last.pre.GMSH_CODE

Appended == SubSeq(Log, Len(LogBefore) + 1, Len(Log))

Failed == last.err # ""

\* the generated symbols a statement refers to
Symbols(stmt) == {r.sym : r \in Range(stmt.refs) \cup Range(stmt.tools)} \ {""}

\* the symbols defined by the statements before position i
DefinedBefore(i) == UNION {Range(Log[j].defs) : j \in 1..(i - 1)}

\* statements that are the .code of an entity object handed to add()
EntityCode ==
    {"Point", "Line", "Line Loop", "Plane Surface", "Circle", "Ellipse",
     "Rectangle", "Disk", "Ball", "Box", "Cylinder", "Torus"}

\* C1: every symbol referred to by a statement that a builder of the two
\* Geometry classes formats, whether the builder made the reference or the
\* caller passed it in, is defined by a statement at a strictly earlier
\* position of the log.
C1_DefinitionPrecedesUse ==
    \A i \in 1..Len(Log) :
        Log[i].kind \notin EntityCode => Symbols(Log[i]) \subseteq DefinedBefore(i)

\* the counters of the two Geometry classes
SessionCounters ==
    {"SURFACE_ID", "SURFACELOOP_ID", "VOLUME_ID", "EXTRUDE_ID", "FIELD_ID",
     "ARRAY_ID", "PHYSICALGROUP_ID", "BOOLEAN_ID"}

\* the names formatted from them, in issue order
Issued == SelectSeq(geom.issued, LAMBDA x : x.ctr \in SessionCounters)

\* C2: every session counter starts at zero and is incremented before a name
\* is formatted from it, so the numbers of the names of one counter strictly
\* increase in issue order (first number 1, none reused), and all names
\* issued by the session are pairwise distinct across the categories.
C2_NamesUnique ==
    LET names == Issued
    IN  /\ calls = 0 => \A c \in SessionCounters : geom[c] = 0
        /\ \A i \in 1..Len(names) :
             /\ names[i].n >= 1
             /\ names[i].n <= geom[names[i].ctr]
        /\ \A i \in 1..Len(names) : \A j \in (i + 1)..Len(names) :
             /\ names[i].name # names[j].name
             /\ names[i].ctr = names[j].ctr => names[i].n < names[j].n

\* a volume and a compound volume were named from the one shared counter
C2_Witness ==
    \E i, j \in 1..Len(Issued) :
        /\ i < j
        /\ Issued[i].ctr = "VOLUME_ID" /\ Issued[j].ctr = "VOLUME_ID"
        /\ {Issued[i].name, Issued[j].name} = {Name("vol", 1), Name("cv", 2)}

\* C3: the log is append-only: the log as it was before a public call of
\* either Geometry class (add_raw_code, add_comment and failing calls
\* included) is a prefix of the log after the call.
C3_AppendOnly == IsPrefix(LogBefore, Log)

\* a second call that failed after it had appended to a log holding statements
C3_Witness ==
    /\ calls = 2
    /\ Failed
    /\ Len(LogBefore) > 1
    /\ Len(Log) > Len(LogBefore)

AllOrNothingBuilders ==
    {"add_polygon", "add_rectangle", "add_box", "add_ellipsoid", "add_ball",
     "add_torus", "add_pipe", "extrude", "add_boundary_layer",
     "add_background_field", "add_array", "boolean_intersection", "boolean_union",
     "boolean_difference", "boolean_fragments"}

\* C4: a builder call that fails leaves the log as it was before the call,
\* also when it fails after its first statement was appended.
C4_AllOrNothing ==
    (last.op \in AllOrNothingBuilders /\ Failed) => Log = LogBefore

\* Geometry.extrude was called with neither axis
ExtrudeWithoutAxis ==
    /\ Builtin
    /\ last.op = "extrude"
    /\ last.args.opts \cap {"translation_axis", "rotation_axis"} = {}

\* C5: Geometry.extrude with translation_axis and rotation_axis both absent
\* fails with RuntimeError and appends no statement, in every session state.
C5_ExtrudeNeedsAxis ==
    ExtrudeWithoutAxis => (last.err = "RuntimeError" /\ Log = LogBefore)

\* extrude without an axis on a session that already holds statements
C5_Witness == ExtrudeWithoutAxis /\ calls = 2 /\ Len(LogBefore) > 1

BooleanOps ==
    {"boolean_intersection", "boolean_union", "boolean_difference",
     "boolean_fragments"}

\* the input entities and the tool entities of the last boolean call
Entities == last.args.ents \o last.args.tools

\* its object list and its tool list: union and intersection take the first
\* entity as the object and the remaining ones as the tools
OneList == last.op \in {"boolean_intersection", "boolean_union"}

ObjectList ==
    IF OneList /\ Entities # <<>> THEN <<Entities[1]>> ELSE last.args.ents

ToolList ==
    IF OneList /\ Entities # <<>> THEN Tail(Entities) ELSE last.args.tools

\* line, surface or volume, else "none"
Kind(e) == IF HasId(e) /\ e.dim \in legal_dim_types THEN e.dim ELSE "none"

MixedKinds == \E i, j \in 1..Len(Entities) : Kind(Entities[i]) # Kind(Entities[j])

FirstOfNoKind == Entities # <<>> /\ Kind(Entities[1]) = "none"

\* C6: a boolean operation whose entities do not all share one dimensional
\* kind, or whose first entity is of none of the three kinds, fails with an
\* AssertionError (an IndexError when there is no input entity to look at)
\* and appends no statement.
C6_MixedKindsFail ==
    (last.op \in BooleanOps /\ (MixedKinds \/ FirstOfNoKind)) =>
        /\ last.err = (IF last.args.ents = <<>> THEN "IndexError" ELSE "AssertionError")
        /\ Log = LogBefore

\* a surface and a volume were handed to one boolean call of a session that
\* holds the statement of a shape
C6_Witness ==
    /\ last.op \in BooleanOps
    /\ MixedKinds
    /\ ~FirstOfNoKind
    /\ Len(Entities) = 2
    /\ Len(LogBefore) > 1

\* at least one entity, all of one of the three kinds
UniformKind ==
    /\ Entities # <<>>
    /\ Kind(Entities[1]) # "none"
    /\ ~MixedKinds

\* what a successful boolean call leaves: one statement named bo<n>, and an
\* entity of the operands' kind, with that id, flagged as a list
OperationName ==
    [boolean_intersection |-> "BooleanIntersection", boolean_union |-> "BooleanUnion",
     boolean_difference |-> "BooleanDifference",
     boolean_fragments |-> "BooleanFragments"]

BooleanDone ==
    LET name == Name("bo", geom.BOOLEAN_ID)
        del  == IF "delete" \in last.args.opts THEN "Delete;" ELSE ""
        kind == Kind(Entities[1])
    IN  /\ last.err = ""
        /\ geom.BOOLEAN_ID = last.pre.BOOLEAN_ID + 1
        /\ IsPrefix(LogBefore, Log)
        /\ Len(Appended) = 1
        /\ Appended[1].kind = OperationName[last.op]
        /\ Appended[1].defs = <<name>>
        /\ Appended[1].refs = MapSeq(IdRef, ObjectList)
        /\ Appended[1].tools = MapSeq(IdRef, ToolList)
        /\ Appended[1].attr = <<kind, del, del>>
        /\ Len(last.ret) = 1
        /\ last.ret[1].t = "ent"
        /\ last.ret[1].dim = kind
        /\ last.ret[1].txt = name
        /\ last.ret[1].list

\* the claim as stated: every boolean call on entities of one kind succeeds
C7_UniformSucceeds == (last.op \in BooleanOps /\ UniformKind) => BooleanDone

\* C7: a boolean operation with at least one object entity and at least one
\* tool entity, all of one dimensional kind, succeeds, appends exactly one
\* statement that assigns to the fresh name bo<n>[] and names the operation,
\* the object ids and the tool ids (for union and intersection the first
\* entity as object, the remaining ones as tools; 'Delete;' in both clauses
\* exactly when delete is true), and returns a new entity of that kind made
\* with id bo<n> and flagged as a list.
C7_UniformPairSucceeds ==
    (/\ last.op \in BooleanOps
     /\ UniformKind
     /\ ObjectList # <<>>
     /\ ToolList # <<>>) => BooleanDone

\* a second boolean call that succeeded without deleting its operands
C7_Witness ==
    /\ last.op \in BooleanOps
    /\ UniformKind
    /\ Len(ObjectList) = 1
    /\ Len(ToolList) = 1
    /\ "delete" \notin last.args.opts
    /\ last.err = ""
    /\ geom.BOOLEAN_ID = 2

IsBooleanStmt(stmt) == \E o \in BooleanOps : stmt.kind = OperationName[o]

\* C8: a boolean call with fewer than two entities in all fails and appends
\* no statement, and no boolean statement of the log has an empty object
\* list or an empty tool list.
C8_NeedsTwoEntities ==
    /\ (last.op \in BooleanOps /\ Len(Entities) < 2) => (Failed /\ Log = LogBefore)
    /\ \A i \in 1..Len(Log) :
         IsBooleanStmt(Log[i]) => (Log[i].refs # <<>> /\ Log[i].tools # <<>>)

\* add_torus / add_pipe was called with a variant it does not know
IllegalVariant ==
    \/ last.op = "add_torus" /\ Builtin
         /\ last.args.variant \notin {"extrude_lines", "extrude_circle"}
    \/ last.op = "add_pipe"
         /\ last.args.variant \notin {"rectangle_rotation", "circle_extrusion"}

\* C9: add_torus and add_pipe with an unrecognized variant fail with
\* ValueError and the session is as before the call: no statement, not even
\* a comment, was appended and no counter changed.
C9_IllegalVariantFails ==
    IllegalVariant => (last.err = "ValueError" /\ geom = last.pre)

\* an unrecognized variant given on a session that already holds statements
C9_Witness ==
    /\ IllegalVariant
    /\ last.op = "add_torus"
    /\ calls = 2
    /\ Len(LogBefore) > 1

\* the definitions of a volume among the appended statements
FinalVolumes ==
    {i \in 1..Len(Appended) : Appended[i].kind \in {"Volume", "Compound Volume"}}

\* C10: add_torus under either variant, for an inner radius below the outer
\* one, completes, emits exactly one final volume definition (Volume for
\* extrude_lines, Compound Volume for extrude_circle) and returns exactly one
\* handle, the one of that volume.
C10_TorusReturnsVolume ==
    (/\ Builtin
     /\ last.op = "add_torus"
     /\ last.args.variant \in {"extrude_lines", "extrude_circle"}
     /\ last.args.n > 0) =>
        /\ last.err = ""
        /\ Cardinality(FinalVolumes) = 1
        /\ \A i \in FinalVolumes :
             /\ Appended[i].kind = (IF last.args.variant = "extrude_lines"
                                    THEN "Volume" ELSE "Compound Volume")
             /\ Len(last.ret) = 1
             /\ last.ret[1].txt = Appended[i].refs[1].txt

\* ---- the composite builders
\* n copies of x
Rep(x, n) == [i \in 1..n |-> x]

\* the kinds of the statements a call appended, "new" allocations left out
AppendedKinds ==
    LET defs == SelectSeq(Appended, LAMBDA s : s.kind # "new")
    IN  [i \in 1..Len(defs) |-> defs[i].kind]

\* add_box was called without holes
BoxWithoutHoles == Builtin /\ last.op = "add_box" /\ last.args.ents = <<>>

\* C11: add_box without holes appends exactly 8 point, 12 edge, 6 line-loop,
\* 6 ruled-surface definitions and 1 surface-loop definition, in that order;
\* with with_volume it appends exactly 1 volume definition after them and
\* returns (volume, surface loop); without it appends no volume statement,
\* leaves the volume counter alone and returns (None, surface loop).
C11_BoxStatements ==
    BoxWithoutHoles =>
        LET w == "with_volume" \in last.args.opts
            l == "label" \in last.args.opts
            sl == Name("surfloop", geom.SURFACELOOP_ID)
        IN  /\ last.err = ""
            /\ IsPrefix(LogBefore, Log)
            /\ AppendedKinds =
                   Rep("Point", 8) \o Rep("Line", 12) \o Rep("Line Loop", 6)
                   \o Rep("Ruled Surface", 6) \o <<"Surface Loop">>
                   \o (IF w THEN <<"Volume">> ELSE <<>>)
                   \o (IF w /\ l THEN <<"Physical Volume">> ELSE <<>>)
            /\ geom.SURFACELOOP_ID = last.pre.SURFACELOOP_ID + 1
            /\ geom.VOLUME_ID = last.pre.VOLUME_ID + (IF w THEN 1 ELSE 0)
            /\ Len(last.ret) = 2
            /\ last.ret[2] = Str(sl, sl)
            /\ last.ret[1] = (IF w THEN Str(Name("vol", geom.VOLUME_ID),
                                             Name("vol", geom.VOLUME_ID))
                              ELSE NoneV)

\* a box without volume on a session whose volume counter had advanced
C11_Witness ==
    /\ BoxWithoutHoles
    /\ "with_volume" \notin last.args.opts
    /\ last.pre.VOLUME_ID = 1
    /\ geom.VOLUME_ID = 1

\* the (with_volume, holes, label) the last call of a solid builder was given
SolidWithVolume == "with_volume" \in last.args.opts

SolidLabel == IF "label" \in last.args.opts THEN Label ELSE NoneV

\* what add_ellipsoid does on the session the last call began with
EllipsoidThere == add_ellipsoid(last.pre, SolidWithVolume, last.args.ents, SolidLabel)

\* C12: from the same session state add_ball and add_ellipsoid, given the same
\* with_volume, holes and label, append the same statements, advance every
\* counter by the same amount and return the same handles (and fail alike).
C12_BallIsEllipsoid ==
    (Builtin /\ last.op = "add_ball") =>
        /\ geom = EllipsoidThere.g
        /\ last.ret = EllipsoidThere.ret
        /\ last.err = EllipsoidThere.err

\* a ball with volume, holes and label on a session that holds statements
C12_Witness ==
    /\ Builtin /\ last.op = "add_ball"
    /\ last.args.opts = {"with_volume", "label"}
    /\ last.args.ents # <<>>
    /\ last.err = ""
    /\ calls = 2
    /\ Len(LogBefore) > 1

\* ---- serialization
\* a statement whose own text ends with a newline character: a comment or a
\* raw string that was given one
StmtEndsWithNewline(stmt) ==
    /\ stmt.kind \in {"comment", "raw"}
    /\ LET s == stmt.attr[1]
       IN  Len(s) > 0 /\ SubSeq(s, Len(s), Len(s)) = "\n"

\* the last character of a text is a newline
EndsWithNewline(text) ==
    /\ text # <<>>
    /\ LET z == text[Len(text)]
       IN  z.nl \/ StmtEndsWithNewline(z.stmt)

\* C13: after any sequence of builder calls (none included) the text
\* get_code returns ends with a newline character.
C13_TrailingNewline == EndsWithNewline(get_code(geom))

\* the statements a new session of the class and constructor arguments holds
FreshLog ==
    IF Builtin THEN <<header>>
    ELSE <<header, Stmt("SetFactory", <<>>, <<>>, <<"OpenCASCADE">>)>>
         \o (IF "characteristic_length_min" \in last.args.opts
             THEN <<Stmt("option", <<>>, <<>>, <<"Mesh.CharacteristicLengthMin">>)>>
             ELSE <<>>)
         \o (IF "characteristic_length_max" \in last.args.opts
             THEN <<Stmt("option", <<>>, <<>>, <<"Mesh.CharacteristicLengthMax">>)>>
             ELSE <<>>)

\* the claim as stated: a new session of either class serializes to the
\* header comment alone
C14_HeaderOnly == calls = 0 => get_code(geom) = <<Piece(header)>>

\* C14: a new session on which no builder was called serializes to the header
\* comment alone for pygmsh.Geometry, and for opencascade.Geometry to the
\* header comment, the SetFactory("OpenCASCADE") statement and one
\* Mesh.CharacteristicLengthMin / Max statement for each of the two
\* constructor arguments that was given, newline-separated, nothing else.
C14_FreshScript == calls = 0 => get_code(geom) = Join(Newline, FreshLog)

\* a new opencascade session that was given the lower length only
C14_Witness ==
    /\ calls = 0
    /\ Occ
    /\ last.args.opts = {"characteristic_length_min"}
    /\ Len(get_code(geom)) = 5

\* ---- extrusion
\* the last call was an extrude of either class, and it succeeded
ExtrudeDone == last.op = "extrude" /\ last.err = ""

ExtrudeSource == last.args.ents[1]

\* the kind the class of the source tells: opencascade.Geometry looks at the
\* class of a line or surface object, pygmsh.Geometry at no class
TypedSource ==
    Occ /\ HasId(ExtrudeSource) /\ ExtrudeSource.dim \in {"Line", "Surface"}

Higher(kind) == IF kind = "Line" THEN "Surface" ELSE "Volume"

Sessions == <<geom>> \o others

\* s is as a constructor leaves it, the log apart
FreshCounters(s) == s.issued = <<>> /\ \A c \in SessionCounters : s[c] = 0

\* the statements a constructor may write
ConstructorOnly(s) ==
    /\ s.GMSH_CODE[1] = header
    /\ \A i \in 2..Len(s.GMSH_CODE) : s.GMSH_CODE[i].kind \in {"SetFactory", "option"}
    /\ s.cls = "builtin" => Len(s.GMSH_CODE) = 1

\* the names s1 has issued beyond those of s0 are numbered from s0's own
\* counters
OwnNumbers(s0, s1) ==
    \A i \in (Len(s0.issued) + 1)..Len(s1.issued) :
        LET x == s1.issued[i]
        IN  x.ctr \in SessionCounters => s0[x.ctr] < x.n /\ x.n <= s1[x.ctr]

\* a step touches one session and leaves the others as they were
OneSessionStep ==
    /\ geom' = geom \/ others' = others
    /\ \A k \in 1..Len(others) :
          others'[k] = others[k] \/ (geom' = geom /\ \A j \in 1..Len(others) :
                                                      j # k => others'[j] = others[j])
    /\ OwnNumbers(geom, geom')
    /\ \A k \in 1..Len(others) : OwnNumbers(others[k], others'[k])

PipeExtrusions == {i \in 1..Len(Appended) : Appended[i].kind = "Extrude"}

\* C18: add_pipe under either variant completes and returns exactly one
\* handle, a reference to the one volume it created: the vol<n> of the Volume
\* statement for rectangle_rotation, the ex<n>[1] result of the extrusion for
\* circle_extrusion.
C18_PipeReturnsVolume ==
    (/\ Builtin
     /\ last.op = "add_pipe"
     /\ last.args.variant \in {"rectangle_rotation", "circle_extrusion"}) =>
        /\ last.err = ""
        /\ Len(last.ret) = 1
        /\ IF last.args.variant = "rectangle_rotation"
           THEN /\ Cardinality(FinalVolumes) = 1
                /\ \A i \in FinalVolumes : last.ret[1].txt = Appended[i].refs[1].txt
           ELSE /\ Cardinality(PipeExtrusions) = 1
                /\ \A i \in PipeExtrusions :
                      last.ret[1].txt = Appended[i].defs[1] \o "[1]"

\* the circle_extrusion half of C18 alone
CircleExtrusionReturnsVolume ==
    last.args.variant = "circle_extrusion" => C18_PipeReturnsVolume

\* ---------------------------------------------------------------- C19
\* add_torus('extrude_lines') or add_pipe('rectangle_rotation') has returned
ChainedRotation ==
    /\ Builtin
    /\ last.err = ""
    /\ \/ last.op = "add_torus" /\ last.args.variant = "extrude_lines"
       \/ last.op = "add_pipe" /\ last.args.variant = "rectangle_rotation"

\* the source curves: the curves the circle's line loop was built with, or
\* the four edges of the rectangle
SourceCurves ==
    IF last.op = "add_torus" THEN last.payload[1].built
    ELSE [j \in 1..Len(last.payload) |-> last.payload[j].owner]

\* the positions, among the appended statements, of those of a kind
Positions(kind) == SelectSeq([i \in 1..Len(Appended) |-> i],
                             LAMBDA i : Appended[i].kind = kind)

\* C19: with k source curves the builder appends exactly 3*k extrude
\* statements, each a rotation by 2*Pi/3; in round 1 the j-th extrusion takes
\* the j-th original curve, in rounds 2 and 3 it takes index 0 of the j-th
\* extrusion of the round before; the one surface loop that follows lists
\* exactly the 3*k index-1 results in emission order, and exactly one volume
\* is then defined from that surface loop.
C19_ChainedRotation ==
    ChainedRotation =>
        LET k   == Len(SourceCurves)
            ex  == Positions("Extrude")
            sl  == Positions("Surface Loop")
            vol == Positions("Volume")
        IN  /\ k > 0
            /\ Len(ex) = 3 * k
            /\ \A j \in 1..Len(ex) :
                  /\ Appended[ex[j]].attr = <<"rotation", "2*Pi/3">>
                  /\ Len(Appended[ex[j]].refs) = 1
                  /\ Appended[ex[j]].refs[1].txt =
                        (IF j <= k THEN "Line{" \o SourceCurves[j].txt \o "}"
                         ELSE "Line{" \o Appended[ex[j - k]].defs[1] \o "[0]}")
            /\ Len(sl) = 1 /\ Len(vol) = 1
            /\ ex[Len(ex)] < sl[1] /\ sl[1] < vol[1]
            /\ Len(Appended[sl[1]].refs) = 3 * k + 1
            /\ \A j \in 1..Len(ex) :
                  Appended[sl[1]].refs[j + 1].txt = Appended[ex[j]].defs[1] \o "[1]"
            /\ Len(Appended[vol[1]].refs) = 2
            /\ Appended[vol[1]].refs[2].txt = Appended[sl[1]].refs[1].txt
            /\ Positions("Compound Volume") = <<>>

\* a pipe by rectangle rotation made on a session that had already extruded:
\* twelve extrusions, numbered from the session's second
C19_Witness ==
    /\ ChainedRotation
    /\ last.op = "add_pipe"
    /\ last.pre.EXTRUDE_ID = 1
    /\ geom.EXTRUDE_ID = 13
    /\ Len(Positions("Extrude")) = 12

\* ---------------------------------------------------------------- C20
\* add_torus('extrude_circle') has returned
CircleRotation ==
    /\ Builtin
    /\ last.err = ""
    /\ last.op = "add_torus" /\ last.args.variant = "extrude_circle"

\* C20: add_torus('extrude_circle') appends exactly 3 extrude statements
\* ex<n>, ex<n+1>, ex<n+2>, each a rotation of a surface by 2*Pi/3: the first
\* takes the plane surface of the circle, the second and the third index 0 of
\* the extrusion before; then exactly one compound volume whose members are
\* ex<n>[1], ex<n+1>[1], ex<n+2>[1] in that order; no surface loop and no
\* plain volume is defined.
C20_CircleRotation ==
    CircleRotation =>
        LET ex == Positions("Extrude")
            ci == Positions("Circle")
            cv == Positions("Compound Volume")
            n  == last.pre.EXTRUDE_ID + 1
        IN  /\ Len(ex) = 3 /\ Len(ci) = 1 /\ Len(cv) = 1
            /\ ci[1] < ex[1] /\ ex[3] < cv[1]
            /\ \A j \in 1..3 :
                  /\ Appended[ex[j]].defs = <<Name("ex", n + j - 1)>>
                  /\ Appended[ex[j]].attr = <<"rotation", "2*Pi/3">>
                  /\ Len(Appended[ex[j]].refs) = 1
                  /\ Appended[ex[j]].refs[1].txt =
                        (IF j = 1
                         THEN LET defs == Appended[ci[1]].defs
                              IN  "Surface{" \o defs[Len(defs)] \o "}"
                         ELSE "Surface{" \o Name("ex", n + j - 2) \o "[0]}")
            /\ Len(Appended[cv[1]].refs) = 4
            /\ \A j \in 1..3 :
                  Appended[cv[1]].refs[j + 1].txt = Name("ex", n + j - 1) \o "[1]"
            /\ Positions("Surface Loop") = <<>>
            /\ Positions("Volume") = <<>>

\* a torus by circle rotation made on a session that had already extruded
\* once: the compound volume is made of ex2[1], ex3[1], ex4[1]
C20_Witness ==
    /\ CircleRotation
    /\ last.pre.EXTRUDE_ID = 1
    /\ geom.EXTRUDE_ID = 4
    /\ Len(Positions("Compound Volume")) = 1

\* ---------------------------------------------------------------- C21
\* add_box or add_ellipsoid was called
SolidCall == Builtin /\ last.op \in {"add_box", "add_ellipsoid"}

\* the holes it was given are names (surface-loop handles)
HolesAreNames == \A i \in 1..Len(last.args.ents) : IsStr(last.args.ents[i])

\* C21: given a non-empty list of hole handles, add_box / add_ellipsoid
\* appends exactly one array statement array<n>, after the outer surface-loop
\* definition and before the volume statement, whose elements are the outer
\* surface loop and then the holes in the caller's order; the volume
\* references array<n>[] and the surface-loop handle returned is array<n>[].
\* Without holes no array statement is appended, the array counter is as it
\* was, and the volume references the surface loop.
C21_HolesArray ==
    (SolidCall /\ HolesAreNames) =>
        LET holes == last.args.ents
            sl    == Positions("Surface Loop")
            arr   == Positions("Array")
            vol   == Positions("Volume")
            w     == SolidWithVolume
            array == Name("array", last.pre.ARRAY_ID + 1)
        IN  /\ last.err = ""
            /\ Len(sl) = 1 /\ Len(last.ret) = 2
            /\ Len(vol) = (IF w THEN 1 ELSE 0)
            /\ IF holes # <<>>
               THEN /\ Len(arr) = 1
                    /\ sl[1] < arr[1]
                    /\ w => arr[1] < vol[1]
                    /\ Appended[arr[1]].defs = <<array>>
                    /\ geom.ARRAY_ID = last.pre.ARRAY_ID + 1
                    /\ Len(Appended[arr[1]].refs) = Len(holes) + 1
                    /\ Appended[arr[1]].refs[1].txt = Appended[sl[1]].refs[1].txt
                    /\ \A i \in 1..Len(holes) :
                          Appended[arr[1]].refs[i + 1].txt = holes[i].txt
                    /\ w => Appended[vol[1]].refs[2].txt = array \o "[]"
                    /\ last.ret[2].txt = array \o "[]"
               ELSE /\ arr = <<>>
                    /\ geom.ARRAY_ID = last.pre.ARRAY_ID
                    /\ w => Appended[vol[1]].refs[2].txt = Appended[sl[1]].refs[1].txt
                    /\ last.ret[2].txt = Appended[sl[1]].refs[1].txt

\* a box with three holes (two handles a builder returned, then a name of the
\* caller's), on a session whose array counter had already advanced
C21_Witness ==
    /\ SolidCall /\ HolesAreNames
    /\ last.op = "add_box"
    /\ Len(last.args.ents) = 3
    /\ last.pre.ARRAY_ID = 1
    /\ last.ret[2].txt = "array2[]"

\* ---------------------------------------------------------------- C22
\* add_polygon, add_rectangle or add_polygon_loop was given N >= 1 points and
\* holes that are loop objects
PolygonCall ==
    /\ Builtin
    /\ last.op \in {"add_polygon", "add_rectangle", "add_polygon_loop"}
    /\ last.args.n >= 1
    /\ \A i \in 1..Len(last.args.ents) : HasId(last.args.ents[i])

\* C22: given N >= 1 points, add_polygon (add_rectangle with N = 4) appends,
\* in this order, exactly N point definitions, N edge definitions where edge k
\* joins point k to point (k+1) mod N, one line loop over those N edges in
\* order, and one plane surface bounded by that loop with the given holes;
\* add_polygon_loop appends the same without the surface.
C22_PolygonStatements ==
    PolygonCall =>
        LET N       == last.args.n
            surface == last.op # "add_polygon_loop"
            holes   == last.args.ents
            new     == Appended
        IN  /\ last.err = ""
            /\ [i \in 1..Len(new) |-> new[i].kind] =
                   Rep("Point", N) \o Rep("Line", N) \o <<"Line Loop">>
                   \o (IF surface THEN <<"Plane Surface">> ELSE <<>>)
            /\ \A k \in 1..N :
                  /\ Len(new[k].defs) = 1
                  /\ new[N + k].refs[1].txt = new[k].defs[1]
                  /\ new[N + k].refs[2].txt = new[(k % N) + 1].defs[1]
                  /\ Len(new[N + k].refs) = 2
            /\ Len(new[2 * N + 1].refs) = N
            /\ \A k \in 1..N : new[2 * N + 1].refs[k].txt = new[N + k].defs[1]
            /\ surface =>
                  /\ Len(new[2 * N + 2].refs) = 1 + Len(holes)
                  /\ new[2 * N + 2].refs[1].txt = new[2 * N + 1].defs[1]
                  /\ \A i \in 1..Len(holes) :
                        new[2 * N + 2].refs[i + 1].txt = holes[i].txt

\* a rectangle made on a session that already holds one: points p5..p8
C22_Witness ==
    /\ PolygonCall
    /\ last.op = "add_rectangle"
    /\ last.err = ""
    /\ last.pre.POINT_ID = 4
    /\ Len(Appended) = 10

\* ---------------------------------------------------------------- C23
\* add_ellipsoid was called without holes and with with_volume
EllipsoidWithVolume ==
    /\ Builtin
    /\ last.op = "add_ellipsoid"
    /\ last.args.ents = <<>>
    /\ SolidWithVolume

\* the text of a reference without its sign
Unsigned(txt) == IF SubSeq(txt, 1, 1) = "-" THEN SubSeq(txt, 2, Len(txt)) ELSE txt

\* C23: add_ellipsoid without holes and with with_volume appends, in this
\* order, exactly 7 point definitions (the centre first), 12 elliptical arcs
\* each with the centre point as its centre, 8 line loops of 3 signed arcs
\* each, 8 ruled surfaces (one per loop), 2 compound surfaces (over ruled
\* surfaces 1-4 and 5-8), 1 surface loop over exactly those 2 compound
\* surfaces and 1 volume of that surface loop.
C23_EllipsoidStatements ==
    EllipsoidWithVolume =>
        LET new  == SelectSeq(Appended, LAMBDA s : s.kind # "new")
            arcs == {new[7 + k].defs[1] : k \in 1..12}
        IN  /\ last.err = ""
            /\ [i \in 1..Len(new) |-> new[i].kind] =
                   Rep("Point", 7) \o Rep("Ellipse", 12) \o Rep("Line Loop", 8)
                   \o Rep("Ruled Surface", 8) \o Rep("Compound Surface", 2)
                   \o <<"Surface Loop", "Volume">>
                   \o (IF "label" \in last.args.opts THEN <<"Physical Volume">>
                       ELSE <<>>)
            /\ Cardinality(arcs) = 12
            /\ \A k \in 1..12 :
                  /\ Len(new[7 + k].refs) = 4
                  /\ new[7 + k].refs[2].txt = new[1].defs[1]
            /\ \A k \in 1..8 :
                  /\ Len(new[19 + k].refs) = 3
                  /\ \A i \in 1..3 : Unsigned(new[19 + k].refs[i].txt) \in arcs
                  /\ Len(new[27 + k].refs) = 2
                  /\ new[27 + k].refs[2].txt = new[19 + k].defs[1]
            /\ \A h \in 1..2 :
                  /\ Len(new[35 + h].refs) = 5
                  /\ \A i \in 1..4 :
                        new[35 + h].refs[i + 1].txt = new[27 + 4 * (h - 1) + i].refs[1].txt
            /\ Len(new[38].refs) = 3
            /\ \A h \in 1..2 : new[38].refs[h + 1].txt = new[35 + h].refs[1].txt
            /\ Len(new[39].refs) = 2
            /\ new[39].refs[2].txt = new[38].refs[1].txt

\* an ellipsoid made on a session that already holds one: points p8..p14
C23_Witness ==
    /\ EllipsoidWithVolume
    /\ last.err = ""
    /\ last.pre.POINT_ID = 7
    /\ geom.POINT_ID = 14
    /\ geom.VOLUME_ID = last.pre.VOLUME_ID + 1

\* ---------------------------------------------------------------- C24
\* the counter of the last call, an extrude or a boolean operation
CallCounter == IF last.op = "extrude" THEN "EXTRUDE_ID" ELSE "BOOLEAN_ID"

CallPrefix == IF last.op = "extrude" THEN "ex" ELSE "bo"

\* an extrude with neither axis, or a boolean operation on at least two
\* entities that are not of one kind
ConsumingFailure ==
    \/ ExtrudeWithoutAxis
    \/ last.op \in BooleanOps /\ MixedKinds /\ last.args.ents # <<>>

\* the statements of the log that extrude and boolean operations write
NumberedStatements ==
    SelectSeq(Log, LAMBDA s : s.kind = "Extrude" \/ IsBooleanStmt(s))

\* C24: a failing extrude (neither axis given) and a failing boolean
\* operation (entities of mixed kind) leave the log as it was, return nothing
\* and advance their counter by one; a successful extrude or boolean operation
\* defines exactly the name numbered one above the counter it found, so the
\* number a failure has consumed is skipped and no name is defined twice.
C24_FailureConsumesNumber ==
    LET c     == CallCounter
        stmts == NumberedStatements
    IN  /\ ConsumingFailure =>
              /\ Failed
              /\ Log = LogBefore
              /\ last.ret = <<>>
              /\ geom[c] = last.pre[c] + 1
        /\ (last.op \in BooleanOps \cup {"extrude"} /\ ~Failed) =>
              /\ geom[c] = last.pre[c] + 1
              /\ Len(Appended) = 1
              /\ Appended[1].defs = <<Name(CallPrefix, last.pre[c] + 1)>>
        /\ \A i \in 1..Len(stmts) : \A j \in (i + 1)..Len(stmts) :
              stmts[i].defs # stmts[j].defs

\* a failed boolean operation has consumed number 1 and the next one, which
\* succeeds, defines bo2: bo1 is defined nowhere
C24_Witness ==
    /\ last.op \in BooleanOps
    /\ ~Failed
    /\ last.pre.BOOLEAN_ID = 1
    /\ NumberedStatements = <<Appended[1]>>
    /\ Appended[1].defs = <<"bo2">>

\* ---------------------------------------------------------------- C25
\* the log holds no statement of add_raw_code
NoRawCode == \A i \in 1..Len(Log) : Log[i].kind # "raw"

\* the prefixes of the names formatted from each counter of the session's
\* class
Prefixes ==
    IF Builtin
    THEN [SURFACE_ID |-> {"surf"}, SURFACELOOP_ID |-> {"surfloop"},
          VOLUME_ID |-> {"vol", "cv"}, EXTRUDE_ID |-> {"ex"}, FIELD_ID |-> {"field"},
          ARRAY_ID |-> {"array"}]
    ELSE [EXTRUDE_ID |-> {"ex"}, BOOLEAN_ID |-> {"bo"}]

\* the names the session will format next
NextNames == UNION {{Name(p, geom[c] + 1) : p \in Prefixes[c]} : c \in DOMAIN Prefixes}

\* every generated symbol that occurs in the log
Occurring == UNION {Range(Log[i].defs) \cup Symbols(Log[i]) : i \in 1..Len(Log)}

\* C25: in a session driven by builder calls only (no add_raw_code) each
\* generated name is defined by at most one statement of the log, every name
\* formatted from a counter has a number between 1 and the counter's value,
\* and no name the session will format next occurs in the log.
C25_NamesDefinedOnce ==
    NoRawCode =>
        LET log == Log
        IN  /\ \A i \in 1..Len(log) : \A j \in (i + 1)..Len(log) :
                  Range(log[i].defs) \cap Range(log[j].defs) = {}
            /\ \A k \in 1..Len(geom.issued) :
                  1 <= geom.issued[k].n /\ geom.issued[k].n <= geom[geom.issued[k].ctr]
            /\ NextNames \cap Occurring = {}

\* the same without the objects handed to add a second time
NamesDefinedOnceUnlessAddedAgain ==
    (last.op = "add" /\ "existing" \in last.args.opts)
    \/ (last.pre.GMSH_CODE # <<>> /\ calls = 2 /\ Len(LogBefore) > 1
        /\ \E i \in 1..Len(LogBefore) : \E j \in (i + 1)..Len(LogBefore) :
              LogBefore[i].defs # <<>> /\ LogBefore[i].defs = LogBefore[j].defs)
    \/ C25_NamesDefinedOnce

\* ------------------------------------------------- two sessions, same calls
\* the label keyword of a recorded call
LabelOf(args) == IF "label" \in args.opts THEN Label ELSE NoneV

\* the method op of session g called with the recorded arguments
Apply(g, op, args) ==
    IF g.cls = "builtin"
    THEN CASE op = "add_point" ->
                  LET e == Point(g) IN add(e.g, e.ret[1])
           [] op = "add_comment" -> add_comment(g, "note")
           [] op = "add_surface_loop" -> add_surface_loop(g, args.ents)
           [] op = "add_volume" -> add_volume(g, args.ents[1])
           [] op = "add_physical_volume" ->
                  add_physical_volume(g, args.ents[1], LabelOf(args))
           [] op = "extrude" ->
                  extrude(g, args.ents[1], "translation_axis" \in args.opts,
                          "rotation_axis" \in args.opts, "point_on_axis" \in args.opts,
                          IF "rotation_axis" \in args.opts THEN Angle ELSE NoneV)
           [] op = "add_array" -> add_array(g, args.ents)
           [] op = "add_rectangle" -> add_rectangle(g, args.ents)
           [] op = "add_box" ->
                  add_box(g, "with_volume" \in args.opts, args.ents, LabelOf(args))
    ELSE CASE op = "add_ball" -> occ_add(g, "Ball")
           [] op = "add_rectangle" -> occ_add(g, "Rectangle")
           [] op = "boolean_union" ->
                  boolean_union(g, args.ents, "delete" \in args.opts)
           [] op = "boolean_difference" ->
                  boolean_difference(g, args.ents, args.tools, "delete" \in args.opts)
           [] op = "extrude" ->
                  occ_extrude(g, args.ents[1], "translation_axis" \in args.opts)

\* the calls a script makes next: the method and its arguments, the objects
\* among them taken from what the previous call returned
ScriptCalls ==
    IF Builtin
    THEN {<<"add_point", NoArgs>>, <<"add_comment", NoArgs>>,
          <<"add_rectangle", [NoArgs EXCEPT !.n = 4]>>}
         \cup {<<"add_surface_loop", [NoArgs EXCEPT !.ents = xs]>> : xs \in EntLists}
         \cup {<<"add_array", [NoArgs EXCEPT !.ents = xs]>> : xs \in StrLists}
         \cup {<<"add_volume", [NoArgs EXCEPT !.ents = <<FirstOr(ForeignStr)>>]>>}
         \cup {<<"add_physical_volume",
                 [NoArgs EXCEPT !.ents = <<FirstOr(ForeignStr)>>, !.opts = LabelOpt(l)]>> :
               l \in Labels}
         \cup {<<"extrude", [NoArgs EXCEPT !.ents = <<FirstOr(ForeignStr)>>,
                                           !.opts = AxisOpts(t, ~t, FALSE)]>> :
               t \in BOOLEAN}
         \cup {<<"extrude", [NoArgs EXCEPT !.ents = <<FirstOr(ForeignStr)>>]>>}
         \cup {<<"add_box", [NoArgs EXCEPT !.ents = a[2], !.opts = SolidOpts(a[1], a[3])]>> :
               a \in {b \in SolidArgs : b[2] \in {<<>>, <<ForeignStr>>}}}
    ELSE {<<"add_ball", NoArgs>>, <<"add_rectangle", NoArgs>>}
         \cup {<<"boolean_union",
                 [NoArgs EXCEPT !.ents = a[1], !.opts = DeleteOpt(a[2])]>> :
               a \in BooleanArgs}
         \cup {<<"boolean_difference",
                 [NoArgs EXCEPT !.ents = Objects(a[1]), !.tools = Tools(a[1]),
                                !.opts = DeleteOpt(a[2])]>> : a \in BooleanArgs}
         \cup {<<"extrude", [NoArgs EXCEPT !.ents = <<e>>,
                                           !.opts = {"translation_axis"}]>> :
               e \in {Operand, ForeignStr}}
         \cup {<<"extrude", [NoArgs EXCEPT !.ents = <<Operand>>]>>}

\* two sessions of one class, constructed with the same arguments
InitScripts ==
    /\ \/ /\ geom = NewBuiltin
          /\ others = <<NewSession(<<geom>>, "builtin", FALSE, FALSE)>>
          /\ last = [op |-> "__init__", args |-> NoArgs, err |-> "", ret |-> <<>>,
                     pre |-> geom, payload |-> <<>>]
       \/ \E a, b \in BOOLEAN :
            /\ geom = NewOcc(a, b)
            /\ others = <<NewSession(<<geom>>, "occ", a, b)>>
            /\ last = [op |-> "__init__",
                       args |-> [NoArgs EXCEPT !.opts = LengthOpts(a, b)],
                       err |-> "", ret |-> <<>>, pre |-> geom, payload |-> <<>>]
    /\ calls = 0

\* the script's next call, made on the first session
ScriptCall ==
    /\ calls % 2 = 0
    /\ calls < 2 * MaxCalls
    /\ \E c \in ScriptCalls : \E x \in {Apply(geom, c[1], c[2])} :
         /\ geom' = x.g
         /\ last' = [op |-> c[1], args |-> c[2], err |-> x.err, ret |-> x.ret,
                     pre |-> geom, payload |-> Payload(x)]
    /\ calls' = calls + 1
    /\ others' = others

\* the same call with the same arguments, made on the second session
Replay ==
    /\ calls % 2 = 1
    /\ \E x \in {Apply(others[1], last.op, last.args)} :
         /\ others' = <<x.g>>
         /\ last' = [op |-> last.op, args |-> last.args, err |-> x.err,
                     ret |-> x.ret, pre |-> others[1], payload |-> Payload(x)]
    /\ geom' = geom
    /\ calls' = calls + 1

NextScripts == ScriptCall \/ Replay

SpecScripts == InitScripts /\ [][NextScripts]_vars

====
